---- MODULE Spec2Model ----
(***************************************************************************)
(* State-machine model of src/src/audacity/NoiseReduction.cpp:             *)
(* the EffectNoiseReduction driver (GetProfile / ReduceNoise / Process)    *)
(* and its Worker (the STFT engine).                                       *)
(*                                                                         *)
(* Representation.                                                         *)
(*  - Times are integers, in ticks of 1/TicksPerSecond second, so that a   *)
(*    sample period of every modelled rate is a whole number of ticks.     *)
(*  - Samples are tokens: 0 is an exact zero, 1 a quiet sample, 2 a loud   *)
(*    sample, 3 a sample written by a reduce pass.                         *)
(*  - A gain is an integer: its level in dB times worker.mGainUnit times   *)
(*    GainScale, so 1.0 is 0 and multiplying two gains is adding them.     *)
(*    The float 0.0 is ZeroGain.  One unit is a float rounding error.      *)
(*  - The real FFT (RealFFTf.h) and the host track (WaveTrack.h) are not   *)
(*    part of the source file; they are modelled from their interface.     *)
(***************************************************************************)
EXTENDS Integers, Sequences, FiniteSets, TLC

(***************************************************************************)
(* Bounds of the model                                                     *)
(***************************************************************************)
\* number of entry-point calls (GetProfile, ReduceNoise) in one behaviour
MaxCalls == 2
\* number of times the host rewrites the advanced settings
MaxConfigures == 2
\* largest block the host track hands out (GetBestBlockSize)
MaxBlockSize == 3

(***************************************************************************)
(* Program constants                                                       *)
(***************************************************************************)
DM_MEDIAN == 0
DM_SECOND_GREATEST == 1
DM_OLD_METHOD == 2
DM_DEFAULT_METHOD == DM_SECOND_GREATEST

WT_RECTANGULAR_HANN == 0
WT_HANN_RECTANGULAR == 1
WT_HANN_HANN == 2
WT_HAMMING_RECTANGULAR == 4
WT_HAMMING_INV_HAMMING == 6
WT_N_WINDOW_TYPES == 7
WT_DEFAULT_WINDOW_TYPES == WT_HANN_HANN

DEFAULT_WINDOW_SIZE_CHOICE == 8
DEFAULT_STEPS_PER_WINDOW_CHOICE == 1

NRC_REDUCE_NOISE == 0
NRC_ISOLATE_NOISE == 1
NRC_LEAVE_RESIDUE == 2

\* windowTypesInfo[t].minSteps, t = 0..6
windowTypesMinSteps == <<2, 2, 4, 4, 2, 4, 2>>

\* windowTypesInfo[t]: does the type have an analysis / a synthesis window
\* array (a rectangular window is left empty)
HasInWindow(t) == t # 0
HasOutWindow(t) == t \notin {1, 4}

(***************************************************************************)
(* Units                                                                   *)
(***************************************************************************)
\* ticks per second: twice the least common multiple of the modelled rates
TicksPerSecond == 14112000
SamplePeriod(rate) == TicksPerSecond \div rate

\* default times of Settings::PrefsIO, in ticks (0.02 s and 0.10 s)
DefaultAttackTime == 282240
DefaultReleaseTime == 1411200

\* sub-lattice resolution of a gain: one unit is one float rounding error
GainScale == 4
\* the float 0.0 as a gain (minus infinity dB)
ZeroGain == -100000000
\* ln(10) as the fraction LnTenNum / LnTenDen
LnTenNum == 23026
LnTenDen == 10000


(***************************************************************************)
(* Arithmetic helpers                                                      *)
(***************************************************************************)
Min(a, b) == IF a < b THEN a ELSE b
Max(a, b) == IF a > b THEN a ELSE b

RECURSIVE Gcd(_, _)
Gcd(a, b) == IF b = 0 THEN a ELSE Gcd(b, a % b)

RECURSIVE LcmUpTo(_)
LcmUpTo(n) == IF n <= 1 THEN 1 ELSE (LcmUpTo(n - 1) * n) \div Gcd(LcmUpTo(n - 1), n)

RECURSIVE SumSeq(_)
SumSeq(s) == IF s = <<>> THEN 0 ELSE Head(s) + SumSeq(Tail(s))

\* a rational [n, d] in lowest terms
Rat(n, d) == LET g == Gcd(n, d) IN IF g = 0 THEN [n |-> 0, d |-> 1] ELSE [n |-> n \div g, d |-> d \div g]

\* product of two gains (floats): 0.0 times anything is 0.0
GainMul(g, a) == IF g = ZeroGain \/ a = ZeroGain THEN ZeroGain ELSE g + a


(***************************************************************************)
(* Input domains                                                           *)
(***************************************************************************)
TrackIds == {1, 2}
\* sample tokens a source track may hold
Quiet == 1
Loud == 2
Processed == 3
\* the host's tracks: quiet noise with one loud sample in it at 44100, quiet
\* noise at 48000
HostTracks ==
    [tr \in TrackIds |->
        IF tr = 1 THEN [rate |-> 44100,
                        samples |-> <<1, 1, 1, 1, 1, 1, 1, 1, 2, 1, 1, 1, 1, 1, 1, 1, 1>>]
        ELSE [rate |-> 48000, samples |-> <<1, 1, 1, 1, 1, 1, 1, 1>>]]
\* selections <<t0, t1>> handed to GetProfile, in ticks: the whole of
\* either track, the first eight samples (the quiet ones of track 1), six
\* samples, and empty
Selections == { <<0, 5440>>, <<0, 2560>>, <<480, 2560>>, <<480, 480>> }
\* arguments of the entry points
NoiseGains == {12}
Sensitivities == {6}
ProfileFreqSmoothings == {3}
FreqSmoothings == {0, 1}
\* what the host writes into the advanced settings: window types, window
\* size choice, steps per window choice, method, reduction choice, attack
\* and release time in ticks
AdvancedSettings ==
    { [wt |-> 2, wsc |-> 0, spc |-> 1, method |-> DM_SECOND_GREATEST, choice |-> NRC_REDUCE_NOISE,
       attack |-> 640, release |-> 640],
      [wt |-> 2, wsc |-> 0, spc |-> 1, method |-> DM_MEDIAN, choice |-> NRC_ISOLATE_NOISE,
       attack |-> 640, release |-> 0],
      [wt |-> 1, wsc |-> 0, spc |-> 0, method |-> DM_SECOND_GREATEST, choice |-> NRC_LEAVE_RESIDUE,
       attack |-> 2600, release |-> 2600],
      [wt |-> 2, wsc |-> 0, spc |-> 0, method |-> DM_SECOND_GREATEST, choice |-> NRC_REDUCE_NOISE,
       attack |-> 0, release |-> 1300],
      [wt |-> 2, wsc |-> 0, spc |-> 2, method |-> DM_MEDIAN, choice |-> NRC_REDUCE_NOISE,
       attack |-> 0, release |-> 0],
      [wt |-> 2, wsc |-> 1, spc |-> 1, method |-> DM_SECOND_GREATEST, choice |-> NRC_REDUCE_NOISE,
       attack |-> 640, release |-> 640] }
\* values an int that was never assigned may hold
UninitializedInts == {NRC_REDUCE_NOISE, NRC_ISOLATE_NOISE, NRC_LEAVE_RESIDUE, 7}
\* rounding error of a log / exp round trip, in gain units
RoundingErrors == {-1, 0, 1}
\* ways a build ends a dereference of a null unique_ptr
NullDerefOutcomes == {"segv", "abort"}

(***************************************************************************)
(* Host track (WaveTrack.h), at the sample level                           *)
(***************************************************************************)
\* WaveTrack::TimeToLongSamples: floor(t * rate + 0.5)
TimeToLongSamples(t, rate) == (2 * t + SamplePeriod(rate)) \div (2 * SamplePeriod(rate))
\* WaveTrack::LongSamplesToTime
LongSamplesToTime(n, rate) == n * SamplePeriod(rate)
\* QUANTIZED_TIME(time, rate): floor(time * rate + 0.5) / rate
QUANTIZED_TIME(t, rate) == TimeToLongSamples(t, rate) * SamplePeriod(rate)
GetStartTime(track) == 0
GetEndTime(track) == LongSamplesToTime(Len(track.samples), track.rate)
\* WaveTrack::Get(buffer, format, start, len)
TrackGet(track, start, len) == SubSeq(track.samples, start + 1, start + len)
\* WaveTrack::HandleClear(t0, t1): drop the samples in [t0, t1)
HandleClear(samples, t0, t1, rate) ==
    LET s0 == Min(TimeToLongSamples(t0, rate), Len(samples))
        s1 == Min(TimeToLongSamples(t1, rate), Len(samples))
    IN IF s1 > s0 THEN SubSeq(samples, 1, s0) \o SubSeq(samples, s1 + 1, Len(samples)) ELSE samples
\* WaveTrack::ClearAndPaste(t0, t1, src): replace [t0, t1) by src
ClearAndPaste(track, t0, t1, src) ==
    LET s0 == Min(TimeToLongSamples(t0, track.rate), Len(track.samples))
        s1 == Max(s0, Min(TimeToLongSamples(t1, track.rate), Len(track.samples)))
    IN [track EXCEPT !.samples = SubSeq(track.samples, 1, s0) \o src
                                 \o SubSeq(track.samples, s1 + 1, Len(track.samples))]

(***************************************************************************)
(* Real FFT (RealFFTf.h), as far as the engine observes it                 *)
(***************************************************************************)
\* power a single sample token puts into a band
LoudPower == 200
ToneBin == 1
SamplePower(x, band) == IF x = 0 THEN 0 ELSE IF x = Loud /\ band = ToneBin THEN 1 + LoudPower ELSE 1
\* |X[band]|^2 of a window: zero for a window of zeros
FftPower(buffer, band) == SumSeq([i \in 1..Len(buffer) |-> SamplePower(buffer[i], band)])
IsNonZero(buffer) == \E i \in 1..Len(buffer) : buffer[i] # 0

(***************************************************************************)
(* EffectNoiseReduction::Settings                                          *)
(***************************************************************************)
WindowSize(settings) == 2 ^ (3 + settings.mWindowSizeChoice)
StepsPerWindow(settings) == 2 ^ (1 + settings.mStepsPerWindowChoice)

\* Settings::Settings and Settings::PrefsIO(true); mNoiseReductionChoice is
\* assigned nowhere and is passed in
DefaultSettings(choice) ==
    [ mDoProfile |-> TRUE,
      mNewSensitivity |-> 6,
      mFreqSmoothingBands |-> 3,
      mNoiseGain |-> 12,
      mAttackTime |-> DefaultAttackTime,
      mReleaseTime |-> DefaultReleaseTime,
      mNoiseReductionChoice |-> choice,
      mWindowTypes |-> WT_DEFAULT_WINDOW_TYPES,
      mWindowSizeChoice |-> DEFAULT_WINDOW_SIZE_CHOICE,
      mStepsPerWindowChoice |-> DEFAULT_STEPS_PER_WINDOW_CHOICE,
      mMethod |-> DM_DEFAULT_METHOD ]

\* Settings::Validate
Validate(settings) ==
    IF StepsPerWindow(settings) < windowTypesMinSteps[settings.mWindowTypes + 1] THEN FALSE
    ELSE IF StepsPerWindow(settings) > WindowSize(settings) THEN FALSE
    ELSE IF settings.mMethod = DM_MEDIAN /\ StepsPerWindow(settings) > 4 THEN FALSE
    ELSE TRUE

(***************************************************************************)
(* EffectNoiseReduction::Statistics                                        *)
(***************************************************************************)
NewStatistics(spectrumSize, rate, windowTypes) ==
    [ mRate |-> rate,
      mWindowSize |-> (spectrumSize - 1) * 2,
      mWindowTypes |-> windowTypes,
      mTotalWindows |-> 0,
      mTrackWindows |-> 0,
      mSums |-> [b \in 0..(spectrumSize - 1) |-> 0],
      mMeans |-> [b \in 0..(spectrumSize - 1) |-> Rat(0, 1)] ]


(***************************************************************************)
(* EffectNoiseReduction::Worker: construction                              *)
(***************************************************************************)
\* 1 + (int)(time * sampleRate / mStepSize), the time in ticks
BlocksIn(time, sampleRate, stepSize) == 1 + (time \div (SamplePeriod(sampleRate) * stepSize))

\* variant of HistoryLen that allows for the attack alone; C29 tells it
\* from HistoryLen
HistoryLenForAttack(doProfile, nWindowsToExamine, center, nAttackBlocks) ==
    IF doProfile THEN 1 ELSE center + nAttackBlocks

\* Worker::Worker: mHistoryLen
HistoryLen(doProfile, nWindowsToExamine, center, nAttackBlocks) ==
    IF doProfile THEN 1 ELSE Max(nWindowsToExamine, center + nAttackBlocks)

\* Worker::Worker: the fields that stay constant during a pass
Worker(settings, sampleRate) ==
    LET windowSize == WindowSize(settings)
        spectrumSize == 1 + windowSize \div 2
        stepsPerWindow == StepsPerWindow(settings)
        stepSize == windowSize \div stepsPerWindow
        noiseGain == 0 - settings.mNoiseGain
        nAttackBlocks == BlocksIn(settings.mAttackTime, sampleRate, stepSize)
        nReleaseBlocks == BlocksIn(settings.mReleaseTime, sampleRate, stepSize)
        freqSmoothingBins == settings.mFreqSmoothingBands
        gainUnit == nAttackBlocks * nReleaseBlocks * LcmUpTo(2 * freqSmoothingBins + 1)
        nWindowsToExamine == 1 + stepsPerWindow
        center == nWindowsToExamine \div 2
    IN [ mDoProfile |-> settings.mDoProfile,
         mSampleRate |-> sampleRate,
         mWindowSize |-> windowSize,
         mSpectrumSize |-> spectrumSize,
         mFreqSmoothingBins |-> freqSmoothingBins,
         mBinLow |-> 0,
         mBinHigh |-> spectrumSize,
         mNoiseReductionChoice |-> settings.mNoiseReductionChoice,
         mStepsPerWindow |-> stepsPerWindow,
         mStepSize |-> stepSize,
         mMethod |-> settings.mMethod,
         mNewSensitivity |-> settings.mNewSensitivity,
         mGainUnit |-> gainUnit,
         mNoiseAttenFactor |-> noiseGain * gainUnit * GainScale,
         mOneBlockAttack |-> (noiseGain * gainUnit * GainScale) \div nAttackBlocks,
         mOneBlockRelease |-> (noiseGain * gainUnit * GainScale) \div nReleaseBlocks,
         mNWindowsToExamine |-> nWindowsToExamine,
         mCenter |-> center,
         mHistoryLen |-> HistoryLen(settings.mDoProfile, nWindowsToExamine, center, nAttackBlocks),
         mInWindow |-> HasInWindow(settings.mWindowTypes),
         mOutWindow |-> (~settings.mDoProfile) /\ HasOutWindow(settings.mWindowTypes) ]

Bands(w) == 0..(w.mSpectrumSize - 1)
Zeros(n) == [i \in 1..n |-> 0]

\* the record StartNewTrack leaves in every slot of the queue; mFFT stands
\* for mRealFFTs and mImagFFTs: the window they were taken from (0: none),
\* whether that window held a non-zero sample, and the samples transformed
ClearedRecord(w) ==
    [ mSpectrums |-> [b \in Bands(w) |-> 0],
      mGains |-> [b \in Bands(w) |-> w.mNoiseAttenFactor],
      mFFT |-> [win |-> 0, nz |-> FALSE, wave |-> Zeros(w.mWindowSize)] ]

\* Worker::StartNewTrack
\* (StartNewTrackInWavePosPadded is the variant that pads a profile pass
\* with leading zeros as well; C4 tells it from StartNewTrackInWavePos)
StartNewTrackQueue(w) == [i \in 0..(w.mHistoryLen - 1) |-> ClearedRecord(w)]
StartNewTrackOverlap(w) == [k \in 1..w.mStepsPerWindow |-> [src |-> {}, nz |-> FALSE]]
StartNewTrackInWavePosPadded(w) == w.mWindowSize - w.mStepSize
StartNewTrackInWavePos(w) == IF w.mDoProfile THEN 0 ELSE w.mWindowSize - w.mStepSize
\* variant of StartNewTrackOutStepCount that does not pass over the padded
\* windows; C16 tells it from StartNewTrackOutStepCount
StartNewTrackOutStepCountUnpadded(w) == 0 - (w.mHistoryLen - 1)

StartNewTrackOutStepCount(w) ==
    IF w.mDoProfile THEN 0 - (w.mHistoryLen - 1)
    ELSE 0 - (w.mHistoryLen - 1) - (w.mStepsPerWindow - 1)

(***************************************************************************)
(* Worker: one window                                                      *)
(***************************************************************************)
\* variant of FillFirstHistoryWindow that leaves the gains of the record as
\* they are in every mode; C31 tells it from FillFirstHistoryWindow
FillFirstHistoryWindowKeepsGains(w, queue, waveBuffer, win) ==
    [queue EXCEPT ![0] =
        [ mSpectrums |-> [b \in Bands(w) |-> FftPower(waveBuffer, b)],
          mGains |-> queue[0].mGains,
          mFFT |-> [win |-> win, nz |-> IsNonZero(waveBuffer), wave |-> waveBuffer] ]]

\* Worker::FillFirstHistoryWindow: the record written at index 0
FillFirstHistoryWindow(w, queue, waveBuffer, win) ==
    [queue EXCEPT ![0] =
        [ mSpectrums |-> [b \in Bands(w) |-> FftPower(waveBuffer, b)],
          mGains |-> IF w.mNoiseReductionChoice # NRC_ISOLATE_NOISE
                     THEN [b \in Bands(w) |-> w.mNoiseAttenFactor]
                     ELSE queue[0].mGains,
          mFFT |-> [win |-> win, nz |-> IsNonZero(waveBuffer), wave |-> waveBuffer] ]]

\* variant of RotateHistoryWindows that rotates the other way,
\* std::rotate(begin, begin + 1, end); C18 tells it from RotateHistoryWindows
RotateHistoryWindowsLeft(w, queue) ==
    [i \in 0..(w.mHistoryLen - 1) |-> IF i = w.mHistoryLen - 1 THEN queue[0] ELSE queue[i + 1]]

\* Worker::RotateHistoryWindows: std::rotate(begin, end - 1, end)
RotateHistoryWindows(w, queue) ==
    [i \in 0..(w.mHistoryLen - 1) |-> IF i = 0 THEN queue[w.mHistoryLen - 1] ELSE queue[i - 1]]

\* Worker::GatherStatistics
GatherStatistics(w, statistics, queue) ==
    [statistics EXCEPT !.mTrackWindows = @ + 1,
                       !.mSums = [b \in DOMAIN @ |-> @[b] + queue[0].mSpectrums[b]]]

\* variant of FinishTrackStatistics that adds the sums to the old mean
\* without weighting it by the windows it stands for; C22 tells it from
\* FinishTrackStatistics
FinishTrackStatisticsUnweighted(statistics) ==
    LET windows == statistics.mTrackWindows
        multiplier == statistics.mTotalWindows
        denom == windows + multiplier
    IN [statistics EXCEPT
          !.mMeans = IF windows # 0
                     THEN [b \in DOMAIN @ |->
                             Rat(@[b].n + statistics.mSums[b] * @[b].d, @[b].d * denom)]
                     ELSE @,
          !.mSums = IF windows # 0 THEN [b \in DOMAIN @ |-> 0] ELSE @,
          !.mTrackWindows = 0,
          !.mTotalWindows = denom]

\* Worker::FinishTrackStatistics
FinishTrackStatistics(statistics) ==
    LET windows == statistics.mTrackWindows
        multiplier == statistics.mTotalWindows
        denom == windows + multiplier
    IN [statistics EXCEPT
          !.mMeans = IF windows # 0
                     THEN [b \in DOMAIN @ |->
                             Rat(@[b].n * multiplier + statistics.mSums[b] * @[b].d, @[b].d * denom)]
                     ELSE @,
          !.mSums = IF windows # 0 THEN [b \in DOMAIN @ |-> 0] ELSE @,
          !.mTrackWindows = 0,
          !.mTotalWindows = denom]

\* the three greatest powers of a band over queue indices 0..n-1, as the
\* loops of Classify keep them
RECURSIVE Greatest(_, _, _, _)
Greatest(queue, band, n, depth) ==
    IF n = 0 THEN <<0, 0, 0>>
    ELSE LET g == Greatest(queue, band, n - 1, depth)
             power == queue[n - 1].mSpectrums[band]
         IN IF power >= g[1] THEN <<power, g[1], IF depth = 3 THEN g[2] ELSE 0>>
            ELSE IF power >= g[2] THEN <<g[1], power, IF depth = 3 THEN g[2] ELSE 0>>
            ELSE IF depth = 3 /\ power >= g[3] THEN <<g[1], g[2], power>>
            ELSE g

\* x <= mNewSensitivity * mMeans[band], mNewSensitivity being the setting
\* times log(10.0)
BelowThreshold(w, statistics, band, x) ==
    x * LnTenDen * statistics.mMeans[band].d <= w.mNewSensitivity * LnTenNum * statistics.mMeans[band].n

\* variant of Classify in which the median of five windows is taken to be
\* the second greatest, as it is of three; C23 tells it from Classify
ClassifyBySecondGreatest(w, statistics, queue, band) ==
    IF w.mMethod = DM_MEDIAN /\ w.mNWindowsToExamine \notin {3, 5}
    THEN TRUE
    ELSE IF w.mMethod \in {DM_MEDIAN, DM_SECOND_GREATEST}
    THEN BelowThreshold(w, statistics, band, Greatest(queue, band, w.mNWindowsToExamine, 2)[2])
    ELSE TRUE

\* Worker::Classify
Classify(w, statistics, queue, band) ==
    IF w.mMethod = DM_MEDIAN /\ w.mNWindowsToExamine = 5
    THEN BelowThreshold(w, statistics, band, Greatest(queue, band, w.mNWindowsToExamine, 3)[3])
    ELSE IF w.mMethod = DM_MEDIAN /\ w.mNWindowsToExamine # 3
    THEN TRUE
    ELSE IF w.mMethod \in {DM_MEDIAN, DM_SECOND_GREATEST}
    THEN BelowThreshold(w, statistics, band, Greatest(queue, band, w.mNWindowsToExamine, 2)[2])
    ELSE TRUE


(***************************************************************************)
(* Worker: gains                                                           *)
(***************************************************************************)
\* Worker::ApplyFreqSmoothing: log, mean over the clipped bin window, exp.
\* err is the rounding error the round trip leaves; a window whose logs
\* are all 0 is exact
ApplyFreqSmoothing(w, gains, err) ==
    IF w.mFreqSmoothingBins = 0 THEN gains
    ELSE [ii \in Bands(w) |->
            LET j0 == Max(0, ii - w.mFreqSmoothingBins)
                j1 == Min(w.mSpectrumSize - 1, ii + w.mFreqSmoothingBins)
                logs == [k \in 1..(j1 - j0 + 1) |-> gains[j0 + k - 1]]
            IN IF \E k \in DOMAIN logs : logs[k] = ZeroGain THEN ZeroGain
               ELSE IF SumSeq(logs) = 0 THEN 0
               ELSE (SumSeq(logs) \div (j1 - j0 + 1)) + err]

\* variant of ClassifyCenter that, isolating, writes only the gains of the
\* bands that are not noise, as the other modes write only those that are;
\* C10 tells it from ClassifyCenter
ClassifyCenterWritesOneKind(w, statistics, queue) ==
    [queue EXCEPT ![w.mCenter].mGains =
        [jj \in Bands(w) |->
            IF w.mNoiseReductionChoice = NRC_ISOLATE_NOISE
            THEN IF jj < w.mBinLow \/ jj >= w.mBinHigh THEN ZeroGain
                 ELSE IF Classify(w, statistics, queue, jj) THEN @[jj] ELSE ZeroGain
            ELSE IF jj < w.mBinLow \/ jj >= w.mBinHigh THEN 0
                 ELSE IF ~Classify(w, statistics, queue, jj) THEN 0 ELSE @[jj]]]

\* variant of ClassifyCenter that, not isolating, writes mNoiseAttenFactor
\* into the bands that are noise instead of leaving them; C24 tells it from
\* ClassifyCenter
ClassifyCenterWritesNoise(w, statistics, queue) ==
    [queue EXCEPT ![w.mCenter].mGains =
        [jj \in Bands(w) |->
            IF w.mNoiseReductionChoice = NRC_ISOLATE_NOISE
            THEN IF jj < w.mBinLow \/ jj >= w.mBinHigh THEN ZeroGain
                 ELSE IF Classify(w, statistics, queue, jj) THEN 0 ELSE ZeroGain
            ELSE IF jj < w.mBinLow \/ jj >= w.mBinHigh THEN 0
                 ELSE IF ~Classify(w, statistics, queue, jj) THEN 0 ELSE w.mNoiseAttenFactor]]

\* ReduceNoise, first part: the gains of the record at mCenter
ClassifyCenter(w, statistics, queue) ==
    [queue EXCEPT ![w.mCenter].mGains =
        [jj \in Bands(w) |->
            IF w.mNoiseReductionChoice = NRC_ISOLATE_NOISE
            THEN IF jj < w.mBinLow \/ jj >= w.mBinHigh THEN ZeroGain
                 ELSE IF Classify(w, statistics, queue, jj) THEN 0 ELSE ZeroGain
            ELSE IF jj < w.mBinLow \/ jj >= w.mBinHigh THEN 0
                 ELSE IF ~Classify(w, statistics, queue, jj) THEN 0 ELSE @[jj]]]

\* ReduceNoise, attack: the walk of one band from index ii upward, on the
\* column col of that band's gains
RECURSIVE AttackWalk(_, _, _)
AttackWalk(w, col, ii) ==
    IF ii >= w.mHistoryLen THEN col
    ELSE LET minimum == Max(w.mNoiseAttenFactor, GainMul(col[ii - 1], w.mOneBlockAttack))
         IN IF col[ii] < minimum
            THEN AttackWalk(w, [col EXCEPT ![ii] = minimum], ii + 1)
            ELSE col

\* variant of Attack that starts the walk one record further from the
\* center; C19 tells it from Attack
AttackPastNeighbour(w, queue) ==
    LET walked == [jj \in Bands(w) |->
                     AttackWalk(w, [i \in 0..(w.mHistoryLen - 1) |-> queue[i].mGains[jj]], w.mCenter + 2)]
    IN [i \in 0..(w.mHistoryLen - 1) |->
          [queue[i] EXCEPT !.mGains = [jj \in Bands(w) |-> walked[jj][i]]]]

\* ReduceNoise, attack: every band walked from the record after the center
Attack(w, queue) ==
    LET walked == [jj \in Bands(w) |->
                     AttackWalk(w, [i \in 0..(w.mHistoryLen - 1) |-> queue[i].mGains[jj]], w.mCenter + 1)]
    IN [i \in 0..(w.mHistoryLen - 1) |->
          [queue[i] EXCEPT !.mGains = [jj \in Bands(w) |-> walked[jj][i]]]]

\* variant of Release that carries the decay on only from a center that
\* holds gain 1; C20 tells it from Release
ReleaseFromUnityOnly(w, queue) ==
    [queue EXCEPT ![w.mCenter - 1].mGains =
        [jj \in Bands(w) |->
            IF queue[w.mCenter].mGains[jj] = 0
            THEN Max(@[jj], Max(w.mNoiseAttenFactor, w.mOneBlockRelease))
            ELSE @[jj]]]

\* ReduceNoise, release: one window ahead of the center
Release(w, queue) ==
    [queue EXCEPT ![w.mCenter - 1].mGains =
        [jj \in Bands(w) |->
            Max(@[jj], Max(w.mNoiseAttenFactor,
                           GainMul(queue[w.mCenter].mGains[jj], w.mOneBlockRelease)))]]

\* ReduceNoise up to the output test, the center being classified: attack,
\* then release, in the modes that do not isolate
AttackGains(w, classified) ==
    IF w.mNoiseReductionChoice # NRC_ISOLATE_NOISE THEN Attack(w, classified) ELSE classified
ShapeGains(w, attacked) ==
    IF w.mNoiseReductionChoice # NRC_ISOLATE_NOISE THEN Release(w, attacked) ELSE attacked

\* does this step synthesise the tail record / append a hop
Synthesises(w, outStepCount) == outStepCount >= 0 - (w.mStepsPerWindow - 1)
Appends(w, outStepCount) == outStepCount >= 0

\* variant of SmoothTail that smooths in every mode, isolate included; C25
\* tells it from SmoothTail
SmoothTailInEveryMode(w, queue, err) ==
    [queue EXCEPT ![w.mHistoryLen - 1].mGains = ApplyFreqSmoothing(w, @, err)]

\* ReduceNoise, output part: smoothing of the tail's gains
SmoothTail(w, queue, err) ==
    IF w.mNoiseReductionChoice # NRC_ISOLATE_NOISE
    THEN [queue EXCEPT ![w.mHistoryLen - 1].mGains = ApplyFreqSmoothing(w, @, err)]
    ELSE queue

\* ReduceNoise, output part: inverse FFT of the tail record and overlap-add;
\* segment k of the buffer takes segment k of the window
OverlapAdd(w, overlap, record) ==
    [k \in 1..w.mStepsPerWindow |->
        [src |-> overlap[k].src \cup {<<record.mFFT.win, k>>},
         nz |-> overlap[k].nz \/ record.mFFT.nz]]

\* variant of ShiftOverlap that leaves the buffer where it is; C27 tells it
\* from ShiftOverlap
ShiftOverlapNowhere(w, overlap) == overlap

\* ReduceNoise, output part: shift the overlap buffer by one step
ShiftOverlap(w, overlap) ==
    [k \in 1..w.mStepsPerWindow |->
        IF k < w.mStepsPerWindow THEN overlap[k + 1] ELSE [src |-> {}, nz |-> FALSE]]

\* ReduceNoise, first part: the bands of the record at mCenter that are
\* inside the frequency range and that Classify finds to be noise
NoiseBands(w, statistics, queue) ==
    { jj \in Bands(w) : jj >= w.mBinLow /\ jj < w.mBinHigh /\ Classify(w, statistics, queue, jj) }

\* the bands of the window at mCenter that hold gain 1 once classified
NonNoiseBands(w, classified) ==
    { <<classified[w.mCenter].mFFT.win, jj>> :
        jj \in { b \in Bands(w) : classified[w.mCenter].mGains[b] = 0 } }

\* Worker::ReduceNoise: the queue, the overlap buffer and the hops appended
\* to the output track; and for the record, the bands found to be
\* non-noise, the gains after the attack and the tail before smoothing.
\* classified, attacked and shaped are the queue after the classification,
\* the attack and the release of this step
ReduceNoiseStep(w, statistics, queue, classified, attacked, shaped, overlap, outStepCount, err) ==
    LET seen == [ nonNoise |-> NonNoiseBands(w, classified),
                  center |-> [win |-> classified[w.mCenter].mFFT.win,
                              noise |-> NoiseBands(w, statistics, queue),
                              mGains |-> classified[w.mCenter].mGains],
                  attacked |-> [i \in 0..(w.mHistoryLen - 1) |-> attacked[i].mGains],
                  shaped |-> [i \in 0..(w.mHistoryLen - 1) |-> shaped[i].mGains],
                  tail |-> [win |-> shaped[w.mHistoryLen - 1].mFFT.win,
                            mGains |-> shaped[w.mHistoryLen - 1].mGains] ]
        smoothed == SmoothTail(w, shaped, err)
        added == OverlapAdd(w, overlap, smoothed[w.mHistoryLen - 1])
    IN IF Synthesises(w, outStepCount)
       THEN [ queue |-> smoothed,
              overlap |-> ShiftOverlap(w, added),
              appended |-> IF Appends(w, outStepCount) THEN <<added[1]>> ELSE <<>>,
              seen |-> seen ]
       ELSE [ queue |-> shaped, overlap |-> overlap, appended |-> <<>>, seen |-> seen ]

\* the samples of an output track of hops: Processed where a window with a
\* non-zero sample contributes, an exact zero elsewhere
OutputSamples(w, hops) ==
    [p \in 1..(Len(hops) * w.mStepSize) |->
        IF hops[((p - 1) \div w.mStepSize) + 1].nz THEN Processed ELSE 0]


(***************************************************************************)
(* State                                                                   *)
(***************************************************************************)
VARIABLES
    \* EffectNoiseReduction
    mSettings,          \* *mSettings
    mStatistics,        \* mStatistics: <<>> when null, else <<the Statistics>>
    mT0, mT1,           \* selection, in ticks
    tracks,             \* the host's tracks: [rate, samples]
    \* control
    pc,                 \* where the running call is; "idle" between calls
    result,             \* what the last call returned
    nCalls,             \* entry-point calls so far
    nConfigures,        \* rewrites of the advanced settings so far
    \* Worker (meaningful while a call runs)
    worker,             \* <<>> or <<the Worker's constant fields>>
    mQueue,
    mInWaveBuffer,
    mOutOverlapBuffer,
    mInSampleCount,
    mOutStepCount,
    mInWavePos,
    \* locals of Worker::ProcessOne and Worker::ProcessSamples
    poTrack, poStart, poLen, samplePos, outputTrack,
    psLen, psBuffer,
    \* history of the current or last call, for stating properties
    call,
    \* the window tables of Worker::Worker, summed over the windows that
    \* overlap one sample (used by WindowSpec only)
    winType,            \* settings.mWindowTypes
    winSteps,           \* mStepsPerWindow
    winPos,             \* position of the sample in its step, 0 .. mStepSize - 1
    winGain,            \* the gain applied to every band
    winK,               \* windows summed so far
    winAcc,             \* the sum
    \* one function of the engine applied on its own
    applied             \* [op, in, out]: the function, what it was given, what it left

effectVars == <<mSettings, mStatistics, mT0, mT1, tracks>>
workerVars == <<worker, mQueue, mInWaveBuffer, mOutOverlapBuffer, mInSampleCount, mOutStepCount, mInWavePos>>
localVars == <<poTrack, poStart, poLen, samplePos, outputTrack, psLen, psBuffer>>
vars == <<mSettings, mStatistics, mT0, mT1, tracks, pc, result, nCalls, nConfigures,
          worker, mQueue, mInWaveBuffer, mOutOverlapBuffer, mInSampleCount, mOutStepCount,
          mInWavePos, poTrack, poStart, poLen, samplePos, outputTrack, psLen, psBuffer, call,
          winType, winSteps, winPos, winGain, winK, winAcc, applied>>
winVars == <<winType, winSteps, winPos, winGain, winK, winAcc>>

HasStatistics == mStatistics # <<>>
Statistics == mStatistics[1]
Wk == worker[1]

\* the history record of a call that has just been entered
NewCall(op, tr, settings) ==
    [ op |-> op,                          \* "GetProfile" or "ReduceNoise"
      track |-> tr,
      settings |-> settings,              \* the settings the call runs with
      statsBefore |-> mStatistics,
      tracksBefore |-> tracks,
      samplesRead |-> 0,                  \* samples fetched with WaveTrack::Get
      engineBuilt |-> FALSE,              \* was a Worker constructed
      warned |-> FALSE,                   \* window types warning printed
      error |-> "",                       \* message printed on failure
      len |-> 0,                          \* samples of the clipped selection
      windows |-> 0,                      \* windows analysed
      steps |-> 0,                        \* window steps completed
      appended |-> 0,                     \* samples appended to the output track
      pasted |-> FALSE,                   \* ClearAndPaste was called
      dropped |-> 0,                      \* samples ProcessSamples returned without copying
      totalWindows |-> 0,                 \* mTotalWindows when Worker::Process ended
      power |-> <<>>,                     \* per band (from 1), the power of the windows gathered
      nonNoise |-> {},                    \* <<window, band>> given gain 1 at mCenter
      center |-> <<>>,                    \* the latest record at mCenter, once classified
      centerBefore |-> <<>>,              \* the same, one window step earlier
      classified |-> {},                  \* [win, mGains] of the analysed windows classified so far
      attacked |-> <<>>,                  \* the gains of the queue after the latest attack
      shaped |-> <<>>,                    \* the same after the latest release
      shapedBefore |-> <<>>,              \* the same, one window step earlier
      filled |-> <<>>,                    \* the gains of the queue as the latest ReduceNoise found them
      headSmoothed |-> FALSE,             \* index 0 held unequal gains changed by smoothing when the latest step began
      tail |-> <<>>,                      \* the latest tail record before smoothing
      flushFrom |-> <<>>,                 \* <<mOutStepCount, mInWavePos>> on entry to FinishTrack
      flushes |-> 0,                      \* rounds of the loop of FinishTrack entered
      lastProfile |-> call.lastProfile,   \* how the latest GetProfile ended
      crash |-> "" ]

WorkerGone ==
    /\ worker' = <<>>
    /\ mQueue' = <<>>
    /\ mInWaveBuffer' = <<>>
    /\ mOutOverlapBuffer' = <<>>
    /\ mInSampleCount' = 0
    /\ mOutStepCount' = 0
    /\ mInWavePos' = 0
    /\ poTrack' = 0 /\ poStart' = 0 /\ poLen' = 0 /\ samplePos' = 0
    /\ outputTrack' = <<>>
    /\ psLen' = 0 /\ psBuffer' = <<>>

\* the effect after construction; mNoiseReductionChoice holds choice
Constructed(choice) ==
    /\ mSettings = DefaultSettings(choice)
    /\ mStatistics = <<>>
    /\ mT0 = 0 /\ mT1 = 0
    /\ tracks = HostTracks
    /\ pc = "idle"
    /\ result = TRUE
    /\ nCalls = 0
    /\ nConfigures = 0
    /\ worker = <<>>
    /\ mQueue = <<>>
    /\ mInWaveBuffer = <<>>
    /\ mOutOverlapBuffer = <<>>
    /\ mInSampleCount = 0
    /\ mOutStepCount = 0
    /\ mInWavePos = 0
    /\ poTrack = 0 /\ poStart = 0 /\ poLen = 0 /\ samplePos = 0
    /\ outputTrack = <<>>
    /\ psLen = 0 /\ psBuffer = <<>>
    /\ call = [ op |-> "none", track |-> 0, settings |-> mSettings, statsBefore |-> <<>>,
                tracksBefore |-> <<>>, samplesRead |-> 0, engineBuilt |-> FALSE,
                warned |-> FALSE, error |-> "", len |-> 0, windows |-> 0, steps |-> 0,
                appended |-> 0, pasted |-> FALSE, dropped |-> 0, totalWindows |-> 0,
                power |-> <<>>, nonNoise |-> {}, center |-> <<>>, centerBefore |-> <<>>,
                classified |-> {},
                attacked |-> <<>>, shaped |-> <<>>, tail |-> <<>>,
                shapedBefore |-> <<>>, filled |-> <<>>, headSmoothed |-> FALSE,
                flushFrom |-> <<>>, flushes |-> 0,
                lastProfile |-> "none", crash |-> "" ]

\* the sums over no window: of the products times the factor of reduce
\* mode, times the factor of residue mode, and times unity; once tells that
\* every product carried the multiplier exactly once
NoWindows == [sum |-> <<0, 0>>, residue |-> <<0, 0>>, unity |-> <<0, 0>>, once |-> TRUE]

\* no function applied on its own
NothingApplied == applied = [op |-> "none"]

\* no window sum in hand
WindowsIdle ==
    /\ winType = WT_DEFAULT_WINDOW_TYPES
    /\ winSteps = 2
    /\ winPos = 0
    /\ winGain = 1
    /\ winK = 0
    /\ winAcc = NoWindows

Init ==
    /\ \E choice \in UninitializedInts : Constructed(choice)
    /\ WindowsIdle
    /\ NothingApplied


(***************************************************************************)
(* The host rewrites the advanced settings (public fields of Settings)     *)
(***************************************************************************)
Configure(cfg) ==
    /\ pc = "idle"
    /\ nConfigures < MaxConfigures
    /\ mSettings' = [mSettings EXCEPT !.mWindowTypes = cfg.wt,
                                      !.mWindowSizeChoice = cfg.wsc,
                                      !.mStepsPerWindowChoice = cfg.spc,
                                      !.mMethod = cfg.method,
                                      !.mNoiseReductionChoice = cfg.choice,
                                      !.mAttackTime = cfg.attack,
                                      !.mReleaseTime = cfg.release]
    /\ nConfigures' = nConfigures + 1
    /\ UNCHANGED <<mStatistics, mT0, mT1, tracks, pc, result, nCalls, call>>
    /\ UNCHANGED workerVars
    /\ UNCHANGED localVars
    /\ UNCHANGED winVars
    /\ UNCHANGED applied

(***************************************************************************)
(* EffectNoiseReduction::Process and what it calls, up to the first block  *)
(***************************************************************************)
\* variant of ProcessReturn that keeps the statistics of a failed profile
\* pass; C3 tells it from ProcessReturn
ProcessReturnKeepsStatistics(settings, statistics, bGoodResult, trks, c) ==
    /\ mSettings' = IF settings.mDoProfile /\ bGoodResult
                    THEN [settings EXCEPT !.mDoProfile = FALSE] ELSE settings
    /\ mStatistics' = <<statistics>>
    /\ tracks' = trks
    /\ result' = bGoodResult
    /\ pc' = "idle"
    /\ call' = [c EXCEPT !.totalWindows = statistics.mTotalWindows,
                         !.lastProfile = IF ~settings.mDoProfile THEN @
                                         ELSE IF bGoodResult THEN "ok" ELSE "failed"]
    /\ WorkerGone

\* variant of ProcessReturn that clears mDoProfile whatever the result; C8
\* tells it from ProcessReturn
ProcessReturnClearsDoProfile(settings, statistics, bGoodResult, trks, c) ==
    /\ mSettings' = [settings EXCEPT !.mDoProfile = FALSE]
    /\ mStatistics' = IF settings.mDoProfile /\ ~bGoodResult THEN <<>> ELSE <<statistics>>
    /\ tracks' = trks
    /\ result' = bGoodResult
    /\ pc' = "idle"
    /\ call' = [c EXCEPT !.totalWindows = statistics.mTotalWindows,
                         !.lastProfile = IF ~settings.mDoProfile THEN @
                                         ELSE IF bGoodResult THEN "ok" ELSE "failed"]
    /\ WorkerGone

\* the end of EffectNoiseReduction::Process: bGoodResult is known
ProcessReturn(settings, statistics, bGoodResult, trks, c) ==
    /\ mSettings' = IF settings.mDoProfile /\ bGoodResult
                    THEN [settings EXCEPT !.mDoProfile = FALSE] ELSE settings
    /\ mStatistics' = IF settings.mDoProfile /\ ~bGoodResult THEN <<>> ELSE <<statistics>>
    /\ tracks' = trks
    /\ result' = bGoodResult
    /\ pc' = "idle"
    /\ call' = [c EXCEPT !.totalWindows = statistics.mTotalWindows,
                         !.lastProfile = IF ~settings.mDoProfile THEN @
                                         ELSE IF bGoodResult THEN "ok" ELSE "failed"]
    /\ WorkerGone

\* variant of WorkerProcessEnd that reports failure after a reduce pass has
\* handled its track; C7 tells it from WorkerProcessEnd
WorkerProcessEndFailsReduce(w, statistics) ==
    IF w.mDoProfile /\ statistics.mTotalWindows # 0 THEN TRUE ELSE FALSE

\* the end of Worker::Process, after the track has been handled
WorkerProcessEnd(w, statistics) ==
    IF w.mDoProfile /\ statistics.mTotalWindows = 0 THEN FALSE ELSE TRUE

\* variants of the tests below that never find a mismatch; C6 and C5 tell
\* them from the tests
WindowSizeMismatchIgnored(statistics, settings) == FALSE
RateMismatchIgnored(track, w) == FALSE

\* the tests of Process on the stored statistics, and of Worker::Process on
\* the track
WindowSizeMismatch(statistics, settings) == statistics.mWindowSize # WindowSize(settings)
WindowTypesDiffer(statistics, settings) == statistics.mWindowTypes # settings.mWindowTypes
RateMismatch(track, w) == track.rate # w.mSampleRate

\* EffectNoiseReduction::Process(track), entered with the settings the
\* entry point has written and the selection t0..t1
Process(op, tr, settings, t0, t1) ==
    LET track == tracks[tr]
        c0 == NewCall(op, tr, settings)
    IN
    /\ mT0' = t0
    /\ mT1' = t1
    /\ nCalls' = nCalls + 1
    /\ UNCHANGED nConfigures
    /\ UNCHANGED winVars
    /\ UNCHANGED applied
    /\ IF ~settings.mDoProfile /\ ~HasStatistics
       THEN \* mStatistics->mWindowSize on a null pointer
            /\ \E outcome \in NullDerefOutcomes : call' = [c0 EXCEPT !.crash = outcome]
            /\ pc' = "crashed"
            /\ mSettings' = settings
            /\ UNCHANGED <<mStatistics, tracks, result>>
            /\ UNCHANGED workerVars
            /\ UNCHANGED localVars
       ELSE IF ~settings.mDoProfile /\ WindowSizeMismatch(Statistics, settings)
       THEN /\ mSettings' = settings
            /\ result' = FALSE
            /\ pc' = "idle"
            /\ call' = [c0 EXCEPT !.error = "window size"]
            /\ UNCHANGED <<mStatistics, tracks>>
            /\ WorkerGone
       ELSE LET statistics == IF settings.mDoProfile
                              THEN NewStatistics(1 + WindowSize(settings) \div 2, track.rate,
                                                 settings.mWindowTypes)
                              ELSE Statistics
            IN \E w \in {Worker(settings, statistics.mRate)} :
            LET c1 == [c0 EXCEPT !.engineBuilt = TRUE,
                                 !.warned = (~settings.mDoProfile)
                                            /\ WindowTypesDiffer(statistics, settings)]
                tc0 == Max(GetStartTime(track), t0)
                tc1 == Min(GetEndTime(track), t1)
                start == TimeToLongSamples(tc0, track.rate)
                end == TimeToLongSamples(tc1, track.rate)
            IN IF RateMismatch(track, w)
               THEN ProcessReturn(settings, statistics, FALSE, tracks, [c1 EXCEPT !.error = "sample rate"])
               ELSE IF tc1 > tc0
               THEN \* Worker::ProcessOne up to its loop: StartNewTrack
                    /\ mSettings' = settings
                    /\ mStatistics' = <<statistics>>
                    /\ worker' = <<w>>
                    /\ mQueue' = StartNewTrackQueue(w)
                    /\ mOutOverlapBuffer' = StartNewTrackOverlap(w)
                    /\ mInWaveBuffer' = Zeros(w.mWindowSize)
                    /\ mInWavePos' = StartNewTrackInWavePos(w)
                    /\ mOutStepCount' = StartNewTrackOutStepCount(w)
                    /\ mInSampleCount' = 0
                    /\ poTrack' = tr /\ poStart' = start /\ poLen' = end - start
                    /\ samplePos' = start
                    /\ outputTrack' = <<>>
                    /\ psLen' = 0 /\ psBuffer' = <<>>
                    /\ pc' = "ProcessOne"
                    /\ call' = [c1 EXCEPT !.len = end - start]
                    /\ UNCHANGED <<tracks, result>>
               ELSE ProcessReturn(settings, statistics, WorkerProcessEnd(w, statistics), tracks,
                                  [c1 EXCEPT !.error = IF WorkerProcessEnd(w, statistics)
                                                       THEN "" ELSE "too short"])

\* the selection an entry point hands to Process: mT1 is moved so that the
\* duration is a whole number of samples
QuantizedEnd(t0, t1, rate) ==
    IF t1 > t0 THEN t0 + (QUANTIZED_TIME(t1, rate) - QUANTIZED_TIME(t0, rate)) ELSE t1

\* EffectNoiseReduction::GetProfile
GetProfile(tr, t0, t1, noiseGain, sensitivity, freqSmoothingBands) ==
    /\ pc = "idle"
    /\ nCalls < MaxCalls
    /\ Process("GetProfile", tr,
               [mSettings EXCEPT !.mDoProfile = TRUE,
                                 !.mFreqSmoothingBands = freqSmoothingBands,
                                 !.mNoiseGain = noiseGain,
                                 !.mNewSensitivity = sensitivity],
               t0, QuantizedEnd(t0, t1, tracks[tr].rate))

\* EffectNoiseReduction::ReduceNoise
ReduceNoise(tr, noiseGain, sensitivity, freqSmoothingBands) ==
    /\ pc = "idle"
    /\ nCalls < MaxCalls
    /\ Process("ReduceNoise", tr,
               [mSettings EXCEPT !.mDoProfile = FALSE,
                                 !.mFreqSmoothingBands = freqSmoothingBands,
                                 !.mNoiseGain = noiseGain,
                                 !.mNewSensitivity = sensitivity],
               GetStartTime(tracks[tr]),
               QuantizedEnd(GetStartTime(tracks[tr]), GetEndTime(tracks[tr]), tracks[tr].rate))


(***************************************************************************)
(* Worker::ProcessOne, Worker::ProcessSamples, Worker::FinishTrack         *)
(***************************************************************************)
\* variant of StepsBehind that also flushes when the output has caught up
\* exactly; C13 tells it from StepsBehind
StepsBehindOrLevel == mOutStepCount * Wk.mStepSize <= mInSampleCount

\* the guard of the loop of ProcessSamples, and of FinishTrack
StepsBehind == mOutStepCount * Wk.mStepSize < mInSampleCount

\* variant of CountBlock that leaves the block uncounted; C28 tells it
\* from CountBlock
CountBlockNot(inSampleCount, blockSize) == inSampleCount

\* ProcessOne: mInSampleCount once a block is fetched, before ProcessSamples
\* is called with it
CountBlock(inSampleCount, blockSize) == inSampleCount + blockSize

\* ProcessOne, one round of its loop up to the call of ProcessSamples
ProcessOneRead ==
    /\ pc = "ProcessOne"
    /\ samplePos < poStart + poLen
    /\ \E best \in 1..MaxBlockSize :
         LET blockSize == Min(best, poStart + poLen - samplePos)
         IN /\ psBuffer' = TrackGet(tracks[poTrack], samplePos, blockSize)
            /\ psLen' = blockSize
            /\ samplePos' = samplePos + blockSize
            /\ mInSampleCount' = CountBlock(mInSampleCount, blockSize)
            /\ call' = [call EXCEPT !.samplesRead = @ + blockSize]
    /\ pc' = "ProcessSamples"
    /\ UNCHANGED effectVars
    /\ UNCHANGED <<result, nCalls, nConfigures>>
    /\ UNCHANGED <<worker, mQueue, mInWaveBuffer, mOutOverlapBuffer, mOutStepCount, mInWavePos>>
    /\ UNCHANGED <<poTrack, poStart, poLen, outputTrack>>
    /\ UNCHANGED winVars
    /\ UNCHANGED applied

\* the wave buffer after memmove of avail samples to mInWavePos
CopyIn(waveBuffer, pos, buffer, avail) ==
    [i \in 1..Len(waveBuffer) |->
        IF i > pos /\ i <= pos + avail THEN buffer[i - pos] ELSE waveBuffer[i]]

\* variant of ShiftWave that moves nothing; C21 tells it from ShiftWave
ShiftWaveNowhere(w, waveBuffer) == waveBuffer

\* the wave buffer after memmove of its last W - H samples to the front
ShiftWave(w, waveBuffer) ==
    [i \in 1..w.mWindowSize |->
        IF i <= w.mWindowSize - w.mStepSize THEN waveBuffer[i + w.mStepSize] ELSE waveBuffer[i]]

\* rounding errors possible in a window step: only a step that smooths
\* the tail has any
StepErrors(w, outStepCount) ==
    IF (~w.mDoProfile) /\ Synthesises(w, outStepCount)
       /\ w.mNoiseReductionChoice # NRC_ISOLATE_NOISE /\ w.mFreqSmoothingBins # 0
    THEN RoundingErrors ELSE {0}

\* variant of StepStatistics that gathers in a reduce pass as well; C12
\* tells it from StepStatistics
StepStatisticsAlwaysGathers(w, statistics, queue) == GatherStatistics(w, statistics, queue)

\* ProcessSamples: the statistics after one window, gathered only in a
\* profile pass
StepStatistics(w, statistics, queue) ==
    IF w.mDoProfile THEN GatherStatistics(w, statistics, queue) ELSE statistics

\* ProcessSamples, one round of its loop
ProcessSamplesStep ==
    /\ pc \in {"ProcessSamples", "FlushSamples"}
    /\ psLen > 0 /\ StepsBehind
    /\ \E w \in {Wk} :
       \E avail \in {Min(psLen, w.mWindowSize - mInWavePos)} :
       \E filled \in {CopyIn(mInWaveBuffer, mInWavePos, psBuffer, avail)} :
          /\ psBuffer' = SubSeq(psBuffer, avail + 1, Len(psBuffer))
          /\ psLen' = psLen - avail
          /\ IF mInWavePos + avail = w.mWindowSize
             THEN \E err \in StepErrors(w, mOutStepCount) :
                  \E first \in {FillFirstHistoryWindow(w, mQueue, filled, call.windows + 1)} :
                  \E classified \in {IF w.mDoProfile THEN <<>>
                                     ELSE ClassifyCenter(w, Statistics, first)} :
                  \E attacked \in {IF w.mDoProfile THEN <<>> ELSE AttackGains(w, classified)} :
                  \E shaped \in {IF w.mDoProfile THEN <<>> ELSE ShapeGains(w, attacked)} :
                  \E r \in {IF w.mDoProfile THEN <<>>
                            ELSE ReduceNoiseStep(w, Statistics, first, classified, attacked,
                                                 shaped, mOutOverlapBuffer,
                                                 mOutStepCount, err)} :
                       /\ mStatistics' = <<StepStatistics(w, Statistics, first)>>
                       /\ mQueue' = RotateHistoryWindows(w, IF w.mDoProfile THEN first ELSE r.queue)
                       /\ mOutOverlapBuffer' = IF w.mDoProfile THEN mOutOverlapBuffer ELSE r.overlap
                       /\ outputTrack' = IF w.mDoProfile THEN outputTrack ELSE outputTrack \o r.appended
                       /\ mOutStepCount' = mOutStepCount + 1
                       /\ mInWaveBuffer' = ShiftWave(w, filled)
                       /\ mInWavePos' = mInWavePos + avail - w.mStepSize
                       /\ call' = [call EXCEPT !.windows = @ + 1, !.steps = @ + 1,
                                               !.power = IF ~w.mDoProfile THEN @
                                                         ELSE [k \in 1..w.mSpectrumSize |->
                                                                 (IF @ = <<>> THEN 0 ELSE @[k])
                                                                 + first[0].mSpectrums[k - 1]],
                                               !.appended = @ + (IF w.mDoProfile THEN 0
                                                                 ELSE Len(r.appended) * w.mStepSize),
                                               !.nonNoise = IF w.mDoProfile THEN @
                                                            ELSE @ \cup r.seen.nonNoise,
                                               !.center = IF w.mDoProfile THEN @ ELSE r.seen.center,
                                               !.centerBefore = call.center,
                                               !.classified =
                                                   IF w.mDoProfile \/ r.seen.center.win < 1 THEN @
                                                   ELSE @ \cup {[win |-> r.seen.center.win,
                                                                 mGains |-> r.seen.center.mGains]},
                                               !.attacked = IF w.mDoProfile THEN @ ELSE r.seen.attacked,
                                               !.shaped = IF w.mDoProfile THEN @ ELSE r.seen.shaped,
                                               !.shapedBefore = call.shaped,
                                               !.filled = IF w.mDoProfile THEN @
                                                          ELSE [i \in 0..(w.mHistoryLen - 1) |->
                                                                  first[i].mGains],
                                               !.headSmoothed =
                                                   /\ ~w.mDoProfile /\ call.steps > 0
                                                   /\ Synthesises(w, mOutStepCount - 1)
                                                   /\ mQueue[0].mGains # call.shaped[w.mHistoryLen - 1]
                                                   /\ \E b \in Bands(w) :
                                                         /\ call.shaped[w.mHistoryLen - 1][b]
                                                               # call.shaped[w.mHistoryLen - 1][0]
                                                         /\ mQueue[0].mGains[b] # w.mNoiseAttenFactor,
                                               !.tail = IF w.mDoProfile THEN @ ELSE r.seen.tail]
             ELSE /\ mInWaveBuffer' = filled
                  /\ mInWavePos' = mInWavePos + avail
                  /\ UNCHANGED <<mStatistics, mQueue, mOutOverlapBuffer, outputTrack, mOutStepCount, call>>
    /\ UNCHANGED <<mSettings, mT0, mT1, tracks>>
    /\ UNCHANGED <<pc, result, nCalls, nConfigures>>
    /\ UNCHANGED <<worker, mInSampleCount>>
    /\ UNCHANGED <<poTrack, poStart, poLen, samplePos>>
    /\ UNCHANGED winVars
    /\ UNCHANGED applied

\* ProcessSamples returns: its loop guard is false
ProcessSamplesReturn ==
    /\ pc \in {"ProcessSamples", "FlushSamples"}
    /\ ~(psLen > 0 /\ StepsBehind)
    /\ pc' = IF pc = "ProcessSamples" THEN "ProcessOne" ELSE "FinishTrack"
    /\ psLen' = 0
    /\ psBuffer' = <<>>
    /\ call' = [call EXCEPT !.dropped = @ + psLen]
    /\ UNCHANGED effectVars
    /\ UNCHANGED <<result, nCalls, nConfigures>>
    /\ UNCHANGED workerVars
    /\ UNCHANGED <<poTrack, poStart, poLen, samplePos, outputTrack>>
    /\ UNCHANGED winVars
    /\ UNCHANGED applied

\* ProcessOne after its loop, in a profile pass: FinishTrackStatistics, and
\* the returns of ProcessOne, Worker::Process and Process
FinishProfile ==
    /\ pc = "ProcessOne"
    /\ samplePos >= poStart + poLen
    /\ Wk.mDoProfile
    /\ LET statistics == FinishTrackStatistics(Statistics)
           good == WorkerProcessEnd(Wk, statistics)
       IN ProcessReturn(mSettings, statistics, good, tracks,
                        [call EXCEPT !.error = IF good THEN "" ELSE "too short"])
    /\ UNCHANGED <<mT0, mT1, nCalls, nConfigures>>
    /\ UNCHANGED winVars
    /\ UNCHANGED applied

\* ProcessOne after its loop, in a reduce pass: enters FinishTrack
StartFinishTrack ==
    /\ pc = "ProcessOne"
    /\ samplePos >= poStart + poLen
    /\ ~Wk.mDoProfile
    /\ pc' = "FinishTrack"
    /\ call' = [call EXCEPT !.flushFrom = <<mOutStepCount, mInWavePos>>]
    /\ UNCHANGED effectVars
    /\ UNCHANGED <<result, nCalls, nConfigures>>
    /\ UNCHANGED workerVars
    /\ UNCHANGED localVars
    /\ UNCHANGED winVars
    /\ UNCHANGED applied

\* variant of EmptyBuffer as long as a window; C26 tells it from
\* EmptyBuffer
EmptyBufferOfWindowSize(w) == Zeros(w.mWindowSize)

\* FinishTrack: the buffer of zeros it feeds
EmptyBuffer(w) == Zeros(w.mStepSize)

\* FinishTrack, one round of its loop up to the call of ProcessSamples
FinishTrackFeed ==
    /\ pc = "FinishTrack"
    /\ StepsBehind
    /\ psLen' = Len(EmptyBuffer(Wk))
    /\ psBuffer' = EmptyBuffer(Wk)
    /\ pc' = "FlushSamples"
    /\ call' = [call EXCEPT !.flushes = @ + 1]
    /\ UNCHANGED effectVars
    /\ UNCHANGED <<result, nCalls, nConfigures>>
    /\ UNCHANGED workerVars
    /\ UNCHANGED <<poTrack, poStart, poLen, samplePos, outputTrack>>
    /\ UNCHANGED winVars
    /\ UNCHANGED applied

\* the track after ProcessOne has spliced the output track into it
Splice(w, track, hops, start, len) ==
    LET out == OutputSamples(w, hops)
        t0 == LongSamplesToTime(start, track.rate)
        tLen == LongSamplesToTime(len, track.rate)
        trimmed == HandleClear(out, tLen, LongSamplesToTime(Len(out), track.rate), track.rate)
    IN ClearAndPaste(track, t0, t0 + tLen, trimmed)

\* FinishTrack returns; ProcessOne flushes, trims and pastes the output, and
\* ProcessOne, Worker::Process and Process return
FinishReduce ==
    /\ pc = "FinishTrack"
    /\ ~StepsBehind
    /\ ProcessReturn(mSettings, Statistics, WorkerProcessEnd(Wk, Statistics),
                     [tracks EXCEPT ![poTrack] = Splice(Wk, @, outputTrack, poStart, poLen)],
                     [call EXCEPT !.pasted = TRUE])
    /\ UNCHANGED <<mT0, mT1, nCalls, nConfigures>>
    /\ UNCHANGED winVars
    /\ UNCHANGED applied

(***************************************************************************)
(* The window tables of Worker::Worker, in exact arithmetic                *)
(***************************************************************************)
\* windowTypesInfo: inCoefficients and outCoefficients in hundredths,
\* productConstantTerm in thousandths, by window type + 1
inCoefficients ==
    << <<100, 0, 0>>, <<50, -50, 0>>, <<50, -50, 0>>, <<42, -50, 8>>,
       <<54, -46, 0>>, <<54, -46, 0>>, <<54, -46, 0>> >>
outCoefficients ==
    << <<50, -50, 0>>, <<100, 0, 0>>, <<50, -50, 0>>, <<50, -50, 0>>,
       <<100, 0, 0>>, <<50, -50, 0>>, <<100, 0, 0>> >>
productConstantTerm == <<500, 500, 375, 335, 540, 385, 1000>>

\* the smallest window size, the one whose cosines are a + b * sqrt(2)/2
\* with a and b rational; such a number is the pair <<a, b>>
MinWindowSize == WindowSize([mWindowSizeChoice |-> 0])
\* cos(2.0 * M_PI * k / mWindowSize) for that size
CosEighth(k) ==
    LET q == k % MinWindowSize
    IN IF q = 0 THEN <<1, 0>>
       ELSE IF q \in {1, 7} THEN <<0, 1>>
       ELSE IF q \in {2, 6} THEN <<0, 0>>
       ELSE IF q \in {3, 5} THEN <<0, -1>>
       ELSE <<-1, 0>>
PairAdd(x, y) == <<x[1] + y[1], x[2] + y[2]>>
PairScale(c, x) == <<c * x[1], c * x[2]>>
\* twice the product of two such numbers
PairMulTwice(x, y) == <<2 * x[1] * y[1] + x[2] * y[2], 2 * (x[1] * y[2] + x[2] * y[1])>>

\* c0 + c1 * cos((2.0 * M_PI * ii) / mWindowSize) + c2 * cos((4.0 * M_PI * ii) / mWindowSize)
WindowCoefficient(coefficients, ii) ==
    PairAdd(<<coefficients[1], 0>>,
            PairAdd(PairScale(coefficients[2], CosEighth(ii)),
                    PairScale(coefficients[3], CosEighth(2 * ii))))

\* variant of InWindowAt that scales the analysis window by the multiplier
\* whatever the synthesis window is; C14 tells it from InWindowAt
InWindowAtAlwaysScaled(windowTypes, ii) ==
    IF windowTypes = WT_RECTANGULAR_HANN THEN [v |-> <<100, 0>>, m |-> 0]
    ELSE [v |-> WindowCoefficient(inCoefficients[windowTypes + 1], ii), m |-> 1]

\* mInWindow[ii] in hundredths, and the power m of the multiplier
\* 1 / (constantTerm * mStepsPerWindow) it carries; with no analysis window
\* the sample is taken as it is
InWindowAt(windowTypes, ii) ==
    IF windowTypes = WT_RECTANGULAR_HANN THEN [v |-> <<100, 0>>, m |-> 0]
    ELSE [v |-> WindowCoefficient(inCoefficients[windowTypes + 1], ii),
          m |-> IF windowTypes \in {WT_HAMMING_RECTANGULAR, WT_HANN_RECTANGULAR} THEN 1 ELSE 0]

\* mInWindow[ii] * mOutWindow[ii]: twice the product, in ten-thousandths,
\* and the power of the multiplier it carries.  The reciprocal synthesis
\* window is multiplier / mInWindow[ii]; were mInWindow[ii] zero the product
\* would not be a number (m is -1 then)
WindowProductAt(windowTypes, ii) ==
    LET in == InWindowAt(windowTypes, ii)
    IN IF windowTypes \in {WT_HANN_RECTANGULAR, WT_HAMMING_RECTANGULAR}
       THEN [v |-> PairMulTwice(in.v, <<100, 0>>), m |-> in.m]
       ELSE IF windowTypes = WT_HAMMING_INV_HAMMING
       THEN IF in.v = <<0, 0>> THEN [v |-> <<0, 0>>, m |-> -1]
            ELSE [v |-> PairMulTwice(<<100, 0>>, <<100, 0>>), m |-> in.m + 1]
       ELSE [v |-> PairMulTwice(in.v, WindowCoefficient(outCoefficients[windowTypes + 1], ii)),
             m |-> in.m + 1]

\* linear gains are counted in quarters: the gain 1.0
Unity == 4
\* gains held by every band of every window: 0.25, 0.5, 1.0
WindowGains == {1, 2, Unity}

\* variant of AppliedFactor that leaves the residue 1 - gain without
\* flipping its phase; C15 tells it from AppliedFactor
AppliedFactorUnflipped(choice, gain) ==
    IF choice = NRC_LEAVE_RESIDUE THEN Unity - gain ELSE gain

\* Worker::ReduceNoise, apply gain to FFT: the factor a bin is multiplied by
AppliedFactor(choice, gain) ==
    IF choice = NRC_LEAVE_RESIDUE THEN gain - Unity ELSE gain

\* a window type, a number of steps it supports, a sample and a gain
WindowInit ==
    /\ Constructed(NRC_REDUCE_NOISE)
    /\ winType \in 0..(WT_N_WINDOW_TYPES - 1)
    /\ winSteps \in {StepsPerWindow([mStepsPerWindowChoice |-> c]) : c \in 0..2}
    /\ winSteps >= windowTypesMinSteps[winType + 1]
    /\ winPos \in 0..((MinWindowSize \div winSteps) - 1)
    /\ winGain \in WindowGains
    /\ winK = 0
    /\ winAcc = NoWindows
    /\ NothingApplied

\* overlap-add of one more window onto the sample: window winK holds it at
\* index winPos + winK * mStepSize
AddWindow ==
    /\ winK < winSteps
    /\ LET product == WindowProductAt(winType, winPos + winK * (MinWindowSize \div winSteps))
       IN winAcc' = [sum |-> PairAdd(winAcc.sum,
                                     PairScale(AppliedFactor(NRC_REDUCE_NOISE, winGain), product.v)),
                     residue |-> PairAdd(winAcc.residue,
                                         PairScale(AppliedFactor(NRC_LEAVE_RESIDUE, winGain), product.v)),
                     unity |-> PairAdd(winAcc.unity, PairScale(Unity, product.v)),
                     once |-> winAcc.once /\ product.m = 1]
    /\ winK' = winK + 1
    /\ UNCHANGED <<winType, winSteps, winPos, winGain, applied>>
    /\ UNCHANGED <<pc, result, nCalls, nConfigures, call>>
    /\ UNCHANGED effectVars
    /\ UNCHANGED workerVars
    /\ UNCHANGED localVars

WindowNext == AddWindow

WindowSpec == WindowInit /\ [][WindowNext]_vars

(***************************************************************************)
(* GatherStatistics and FinishTrackStatistics, applied to any statistics   *)
(***************************************************************************)
MaxTrackWindows == 2
MaxTotalWindows == 2
\* a statistics of two bands: windows of earlier tracks and their means
MeanInputs == {Rat(0, 1), Rat(1, 1), Rat(3, 2)}
StatisticsInputs ==
    { [NewStatistics(2, 44100, WT_DEFAULT_WINDOW_TYPES) EXCEPT !.mTotalWindows = m, !.mMeans = means] :
        m \in 1..MaxTotalWindows, means \in [0..1 -> MeanInputs] }
    \cup { NewStatistics(2, 44100, WT_DEFAULT_WINDOW_TYPES) }
\* the power spectrum of a window of two bands
SpectrumInputs == [0..1 -> 0..2]

StatisticsInit ==
    /\ Constructed(NRC_REDUCE_NOISE)
    /\ WindowsIdle
    /\ \E statistics \in StatisticsInputs :
          applied = [op |-> "none", in |-> statistics, spectrum |-> <<>>, out |-> statistics]

\* what an action of this specification leaves alone
OnlyApplied ==
    /\ UNCHANGED <<pc, result, nCalls, nConfigures, call>>
    /\ UNCHANGED effectVars
    /\ UNCHANGED workerVars
    /\ UNCHANGED localVars
    /\ UNCHANGED winVars

\* GatherStatistics with a window of the given spectrum at the head
GatherOne(spectrum) ==
    /\ applied.out.mTrackWindows < MaxTrackWindows
    /\ applied' = [op |-> "GatherStatistics", in |-> applied.out, spectrum |-> spectrum,
                   out |-> GatherStatistics([mSpectrumSize |-> 2], applied.out,
                                            [i \in {0} |-> [mSpectrums |-> spectrum]])]
    /\ OnlyApplied

\* FinishTrackStatistics, at the end of a track
FinishOne ==
    /\ applied.op # "FinishTrackStatistics"
    /\ applied.out.mTotalWindows <= MaxTotalWindows
    /\ applied' = [op |-> "FinishTrackStatistics", in |-> applied.out, spectrum |-> <<>>,
                   out |-> FinishTrackStatistics(applied.out)]
    /\ OnlyApplied

StatisticsNext ==
    \/ \E spectrum \in SpectrumInputs : GatherOne(spectrum)
    \/ FinishOne

StatisticsSpec == StatisticsInit /\ [][StatisticsNext]_vars

(***************************************************************************)
(* Classify, applied to any powers                                         *)
(***************************************************************************)
MaxPower == 2
\* the power of one band in a window
PowerInputs == 0..MaxPower
\* the mean of that band in the profile: thresholds of 0, about 1.4 and
\* about 2.8 with mNewSensitivity = 6 log(10.0)
ThresholdMeans == {Rat(0, 1), Rat(1, 10), Rat(1, 5)}
\* mMethod and mNWindowsToExamine = 1 + mStepsPerWindow
ClassifyMethods ==
    { [method |-> method, examine |-> 1 + StepsPerWindow([mStepsPerWindowChoice |-> c])] :
        method \in {DM_MEDIAN, DM_SECOND_GREATEST}, c \in 0..2 }

ClassifyInit ==
    /\ Constructed(NRC_REDUCE_NOISE)
    /\ WindowsIdle
    /\ \E how \in ClassifyMethods, mean \in ThresholdMeans :
       \E powers \in [0..(how.examine - 1) -> PowerInputs] :
          applied = [op |-> "none", out |-> FALSE,
                     in |-> [method |-> how.method, examine |-> how.examine,
                             powers |-> powers, mean |-> mean]]

\* Classify of band 0, the queue holding the powers drawn
ClassifyOne ==
    /\ applied.op = "none"
    /\ applied' = [applied EXCEPT
                     !.op = "Classify",
                     !.out = Classify([mMethod |-> applied.in.method,
                                       mNWindowsToExamine |-> applied.in.examine,
                                       mNewSensitivity |-> DefaultSettings(NRC_REDUCE_NOISE).mNewSensitivity],
                                      [mMeans |-> [b \in {0} |-> applied.in.mean]],
                                      [i \in DOMAIN applied.in.powers |->
                                          [mSpectrums |-> [b \in {0} |-> applied.in.powers[i]]]],
                                      0)]
    /\ OnlyApplied

ClassifyNext == ClassifyOne

ClassifySpec == ClassifyInit /\ [][ClassifyNext]_vars

(***************************************************************************)
(* Specification                                                           *)
(***************************************************************************)
Next ==
    \/ \E cfg \in AdvancedSettings : Configure(cfg)
    \/ \E tr \in TrackIds, sel \in Selections, noiseGain \in NoiseGains,
          sensitivity \in Sensitivities, freqSmoothingBands \in ProfileFreqSmoothings :
          GetProfile(tr, sel[1], sel[2], noiseGain, sensitivity, freqSmoothingBands)
    \/ \E tr \in TrackIds, noiseGain \in NoiseGains, sensitivity \in Sensitivities,
          freqSmoothingBands \in FreqSmoothings :
          ReduceNoise(tr, noiseGain, sensitivity, freqSmoothingBands)
    \/ ProcessOneRead
    \/ ProcessSamplesStep
    \/ ProcessSamplesReturn
    \/ FinishProfile
    \/ StartFinishTrack
    \/ FinishTrackFeed
    \/ FinishReduce

Spec == Init /\ [][Next]_vars

\* the steps inside a call of Process
EngineStep ==
    \/ ProcessOneRead
    \/ ProcessSamplesStep
    \/ ProcessSamplesReturn
    \/ FinishProfile
    \/ StartFinishTrack
    \/ FinishTrackFeed
    \/ FinishReduce

\* a call of Process is under way
Running == pc \in {"ProcessOne", "ProcessSamples", "FlushSamples", "FinishTrack"}

\* what every step of EngineStep does to the place the call is at: it
\* moves pc, or stays in the loop of ProcessSamples with fewer samples left
\* of the block
EngineMoves ==
    /\ Running
    /\ \E p \in {"idle", "ProcessOne", "ProcessSamples", "FlushSamples", "FinishTrack"},
          n \in 0..Max(psLen, Wk.mWindowSize) :
          /\ pc' = p /\ psLen' = n
          /\ p # pc \/ n < psLen

\* the same with a call once entered run on: Process runs in one thread
\* with nothing to wait for, so a call under way takes its next step
FairSpec == Spec /\ WF_<<pc, psLen>>(EngineMoves)

(***************************************************************************)
(* Properties of the entry points                                          *)
(***************************************************************************)
\* C1: when the settings are invalid (fewer steps per window than the window
\* types need, more steps than the window has samples, or median with other
\* than 4 steps), GetProfile and ReduceNoise return failure, no sample has
\* been read, and neither the statistics nor the tracks have changed.
\* The code never calls Settings::Validate, so this does not hold.
C1_InvalidSettingsRejected ==
    (call.op \in {"GetProfile", "ReduceNoise"} /\ ~Validate(call.settings) /\ pc # "crashed")
        => /\ pc = "idle"
           /\ result = FALSE
           /\ call.samplesRead = 0
           /\ mStatistics = call.statsBefore
           /\ tracks = call.tracksBefore

\* C2: ReduceNoise entered with no stored statistics returns failure without
\* touching any track.  The code dereferences the null mStatistics instead.
C2_NoProfileFails ==
    (call.op = "ReduceNoise" /\ call.statsBefore = <<>>)
        => /\ pc = "idle"
           /\ result = FALSE
           /\ tracks = call.tracksBefore

\* C3: after a GetProfile that returned failure the effect holds no
\* statistics; statistics are held between calls only when the latest
\* GetProfile succeeded, and a ReduceNoise that returns success began with
\* stored statistics, so none succeeds between a failed GetProfile and the
\* next successful one.
C3_FailedProfileDiscardsStatistics ==
    /\ (call.op = "GetProfile" /\ pc = "idle" /\ ~result) => mStatistics = <<>>
    /\ (pc = "idle" /\ mStatistics # <<>>) => call.lastProfile = "ok"
    /\ (call.op = "ReduceNoise" /\ pc = "idle" /\ result)
          => (call.statsBefore # <<>> /\ call.lastProfile = "ok")

\* C3 witness: a GetProfile has failed while statistics of an earlier
\* profile were stored, and they are gone.
C3_Witness ==
    /\ call.op = "GetProfile" /\ pc = "idle" /\ ~result
    /\ call.statsBefore # <<>>
    /\ mStatistics = <<>>

\* C4: a profile pass over N samples with window size W fails, with the
\* message about the selection being too short, exactly when no window was
\* analysed, which is exactly when N < W.
C4_ProfileTooShortIffShorterThanWindow ==
    (call.op = "GetProfile" /\ pc = "idle")
        => /\ result = (call.len >= WindowSize(call.settings))
           /\ result = (call.totalWindows # 0)
           /\ (~result) = (call.error = "too short")

\* C4 witness: a profile pass has read a selection that is not empty but
\* shorter than the window, and has failed.
C4_Witness ==
    /\ call.op = "GetProfile" /\ pc = "idle" /\ ~result
    /\ call.len > 0 /\ call.len < WindowSize(call.settings)
    /\ call.samplesRead = call.len

\* C5: a ReduceNoise on a track whose rate differs from the rate of the
\* stored statistics (their window sizes agreeing) returns failure and has
\* read no sample.
C5_RateMismatchFailsBeforeReading ==
    (/\ call.op = "ReduceNoise" /\ call.statsBefore # <<>>
     /\ call.statsBefore[1].mWindowSize = WindowSize(call.settings)
     /\ call.statsBefore[1].mRate # call.tracksBefore[call.track].rate)
        => /\ pc = "idle"
           /\ result = FALSE
           /\ call.error = "sample rate"
           /\ call.samplesRead = 0
           /\ call.windows = 0

\* C5 witness: a ReduceNoise has failed on the rate of its track.
C5_Witness ==
    /\ call.op = "ReduceNoise" /\ pc = "idle" /\ ~result
    /\ call.engineBuilt
    /\ call.statsBefore[1].mRate # call.tracksBefore[call.track].rate

\* C6: a ReduceNoise whose window size differs from that of the stored
\* statistics returns failure with no Worker constructed and no sample read;
\* when only the window types differ a warning is printed and the pass runs.
C6_WindowSizeMismatchFailsTypesOnlyWarn ==
    /\ (/\ call.op = "ReduceNoise" /\ call.statsBefore # <<>>
        /\ call.statsBefore[1].mWindowSize # WindowSize(call.settings))
          => /\ pc = "idle"
             /\ result = FALSE
             /\ call.error = "window size"
             /\ ~call.engineBuilt
             /\ call.samplesRead = 0
    /\ (/\ call.op = "ReduceNoise" /\ call.statsBefore # <<>>
        /\ call.statsBefore[1].mWindowSize = WindowSize(call.settings)
        /\ call.statsBefore[1].mWindowTypes # call.settings.mWindowTypes)
          => /\ call.warned
             /\ call.engineBuilt
             /\ call.error \in {"", "sample rate"}
             /\ (pc = "idle" /\ call.error = "") => (result /\ call.pasted)

\* C6 witness: a ReduceNoise has failed on the window size of the statistics.
C6_Witness ==
    /\ call.op = "ReduceNoise" /\ pc = "idle" /\ ~result
    /\ call.statsBefore # <<>>
    /\ call.statsBefore[1].mWindowSize # WindowSize(call.settings)

\* C7: when ReduceNoise returns failure the samples of every track are as
\* they were before the call: the output is spliced into the track only on
\* the path that returns success.
C7_FailedReduceLeavesTrack ==
    call.op = "ReduceNoise"
        => /\ (pc = "idle" /\ ~result) => (tracks = call.tracksBefore /\ ~call.pasted)
           /\ (call.pasted \/ tracks # call.tracksBefore) => (pc = "idle" /\ result)

\* C7 witness: a ReduceNoise has constructed its Worker and returned failure.
C7_Witness ==
    /\ call.op = "ReduceNoise" /\ pc = "idle" /\ ~result
    /\ call.engineBuilt
    /\ tracks = call.tracksBefore

\* C8: after a GetProfile that returned success mDoProfile is false; after
\* one that returned failure it is still true.
C8_DoProfileClearedOnSuccessOnly ==
    (call.op = "GetProfile" /\ pc = "idle") => (mSettings.mDoProfile = ~result)

\* C8 witness: a GetProfile has analysed windows and returned success.
C8_Witness ==
    /\ call.op = "GetProfile" /\ pc = "idle" /\ result
    /\ call.windows > 0
    /\ ~mSettings.mDoProfile

(***************************************************************************)
(* Properties of the gains                                                 *)
(***************************************************************************)
\* C9: during a pass in reduce or residue mode, from StartNewTrack on and
\* after every window step, every gain of every band of every record of the
\* queue is at least mNoiseAttenFactor and at most 1.  The logarithm, mean
\* and exponential of ApplyFreqSmoothing do not give back mNoiseAttenFactor
\* exactly, so the tail's gains can end below it.
C9_GainsBetweenAttenuationAndOne ==
    (/\ worker # <<>>
     /\ ~Wk.mDoProfile
     /\ Wk.mNoiseReductionChoice \in {NRC_REDUCE_NOISE, NRC_LEAVE_RESIDUE})
        => \A i \in DOMAIN mQueue : \A b \in Bands(Wk) :
              /\ Wk.mNoiseAttenFactor <= mQueue[i].mGains[b]
              /\ mQueue[i].mGains[b] <= 0

\* C10 as stated: during a pass in isolate mode, from StartNewTrack on and
\* after every window step, every gain of every record is exactly 0.0 or
\* 1.0.  StartNewTrack fills the gains with mNoiseAttenFactor in every mode,
\* so this fails until a record has been at mCenter.
C10_IsolateGainsZeroOrOne ==
    (/\ worker # <<>>
     /\ ~Wk.mDoProfile
     /\ Wk.mNoiseReductionChoice = NRC_ISOLATE_NOISE)
        => \A i \in DOMAIN mQueue : \A b \in Bands(Wk) :
              mQueue[i].mGains[b] \in {ZeroGain, 0}

\* C10 amended: during a pass in isolate mode every gain is 0.0, 1.0 or the
\* mNoiseAttenFactor that StartNewTrack wrote, and from the window step in
\* which a record is at mCenter on, all its gains are exactly 0.0 or 1.0;
\* the record now at index i was at mCenter (i - 1 - mCenter) mod mHistoryLen
\* steps before the latest one.  The tail's gains, when they are applied,
\* are therefore 0.0 or 1.0.
C10_IsolateGainsZeroOrOneOnceClassified ==
    (/\ worker # <<>>
     /\ ~Wk.mDoProfile
     /\ Wk.mNoiseReductionChoice = NRC_ISOLATE_NOISE)
        => \A i \in DOMAIN mQueue : \A b \in Bands(Wk) :
              /\ mQueue[i].mGains[b] \in {ZeroGain, 0, Wk.mNoiseAttenFactor}
              /\ call.steps >= 1 + ((i - 1 - Wk.mCenter) % Wk.mHistoryLen)
                    => mQueue[i].mGains[b] \in {ZeroGain, 0}

\* C10 witness: an isolate pass has synthesised a tail record, which is now
\* at index 0 and holds a gain of 0.0 and a gain of 1.0.
C10_Witness ==
    /\ worker # <<>>
    /\ ~Wk.mDoProfile
    /\ Wk.mNoiseReductionChoice = NRC_ISOLATE_NOISE
    /\ call.steps >= Wk.mHistoryLen
    /\ \E b \in Bands(Wk) : mQueue[0].mGains[b] = ZeroGain
    /\ \E b \in Bands(Wk) : mQueue[0].mGains[b] = 0

(***************************************************************************)
(* Properties of the statistics                                            *)
(***************************************************************************)
\* C11: profile captures merge.  After a successful GetProfile, the total
\* number of windows is that of the statistics stored before the call (taken
\* at the same rate and window size) plus the windows of this capture, and
\* the mean of each band is the power of all those windows divided by that
\* total.  Process makes new Statistics in every profile pass, so an earlier
\* capture is lost.
C11_ProfileCapturesMerge ==
    (/\ call.op = "GetProfile" /\ pc = "idle" /\ result
     /\ call.statsBefore # <<>>
     /\ call.statsBefore[1].mRate = mStatistics[1].mRate
     /\ call.statsBefore[1].mWindowSize = mStatistics[1].mWindowSize)
        => LET before == call.statsBefore[1]
               now == mStatistics[1]
           IN /\ now.mTotalWindows = before.mTotalWindows + call.windows
              /\ \A b \in DOMAIN now.mMeans :
                    now.mMeans[b].n * before.mMeans[b].d * (before.mTotalWindows + call.windows)
                    = now.mMeans[b].d * (before.mMeans[b].n * before.mTotalWindows
                                         + call.power[b + 1] * before.mMeans[b].d)

\* C12: from its entry to its return, successful or not, a ReduceNoise
\* leaves the stored statistics as they were: rate, window size, window
\* types, sums, means, total windows and track windows.
C12_ReduceLeavesStatistics ==
    (call.op = "ReduceNoise" /\ pc # "crashed") => mStatistics = call.statsBefore

\* C12 witness: a ReduceNoise has run through its flush, pasted its output
\* and returned success, with statistics stored.
C12_Witness ==
    /\ call.op = "ReduceNoise" /\ pc = "idle" /\ result
    /\ call.pasted /\ call.steps > 0
    /\ mStatistics # <<>>
    /\ mStatistics = call.statsBefore

(***************************************************************************)
(* Properties of the output                                                *)
(***************************************************************************)
\* C13: when a reduce pass over N > 0 samples has finished its track, the
\* samples appended to the output track are a whole number of hops, at
\* least N and fewer than N plus one hop, however the input was split into
\* blocks.
C13_AppendedWithinOneHop ==
    (call.op = "ReduceNoise" /\ call.pasted /\ call.len > 0)
        => LET H == WindowSize(call.settings) \div StepsPerWindow(call.settings)
           IN /\ call.appended % H = 0
              /\ call.len <= call.appended
              /\ call.appended < call.len + H

\* C13 witness: a reduce pass has finished a track whose length is not a
\* whole number of hops, with part of a hop in excess.
C13_Witness ==
    /\ call.op = "ReduceNoise" /\ call.pasted
    /\ call.len > 0
    /\ call.appended > call.len

\* C14: with the same gain c on every band, a sample comes out as c times
\* what went in: over the windows that overlap it, the products of the
\* analysis and the synthesis window, each scaled once by the multiplier
\* 1 / (constantTerm * mStepsPerWindow), sum to 1.  (The sum held is 20000
\* times the unscaled products, with the gain in quarters on both sides; the
\* constant term is in thousandths.)
C14_ConstantGainScalesInput ==
    winK = winSteps
        => /\ winAcc.once
           /\ PairScale(1000, winAcc.sum)
              = <<winGain * 20000 * productConstantTerm[winType + 1] * winSteps, 0>>

\* C14 witness: the four windows of the default window types that overlap
\* a sample have been added with gain 1.
C14_Witness ==
    /\ winType = WT_HANN_HANN /\ winSteps = 4 /\ winGain = Unity
    /\ winK = winSteps
    /\ winAcc.sum # <<0, 0>>

\* C15 as stated: for the same windows and gains, what residue mode puts
\* out and what reduce mode puts out add up to what unity gain puts out.
\* Residue mode multiplies by gain - 1, so they do not.
C15_ResiduePlusReduceIsUnity ==
    winK = winSteps => PairAdd(winAcc.sum, winAcc.residue) = winAcc.unity

\* C15 amended: what reduce mode puts out less what residue mode puts out
\* is what unity gain puts out; per bin, the factor of reduce mode minus the
\* factor of residue mode is 1.
C15_ReduceMinusResidueIsUnity ==
    /\ winK = winSteps => PairAdd(winAcc.sum, PairScale(-1, winAcc.residue)) = winAcc.unity
    /\ AppliedFactor(NRC_REDUCE_NOISE, winGain) - AppliedFactor(NRC_LEAVE_RESIDUE, winGain) = Unity

\* C15 witness: all the windows over a sample have been added with a gain
\* below 1, so that residue mode puts out something.
C15_Witness ==
    /\ winK = winSteps
    /\ winGain < Unity
    /\ winAcc.residue # <<0, 0>>
    /\ winAcc.sum # winAcc.unity

\* the windows whose inverse FFT has been added to the overlap buffer: those
\* with a segment still in the buffer or in a hop of the output track
SynthesisedWindows ==
    UNION ( { { p[1] : p \in mOutOverlapBuffer[k].src } : k \in DOMAIN mOutOverlapBuffer }
            \cup { { p[1] : p \in outputTrack[h].src } : h \in DOMAIN outputTrack } )

\* C16: in a reduce pass the output lags the analysis by (L-1)+(S-1) window
\* steps: after t steps the windows synthesised are exactly the first
\* t-(L-1) (none while t <= L-1), and the output track holds exactly
\* t-(L-1)-(S-1) hops of H samples (none while t <= (L-1)+(S-1)), so that
\* every later step appends exactly one hop.
C16_OutputLagsAnalysis ==
    (call.op = "ReduceNoise" /\ worker # <<>> /\ pc # "crashed")
        => LET L == Wk.mHistoryLen
               S == Wk.mStepsPerWindow
               H == Wk.mStepSize
               t == call.steps
           IN /\ mOutStepCount = t - (L - 1) - (S - 1)
              /\ SynthesisedWindows = 1..(t - (L - 1))
              /\ Len(outputTrack) = Max(0, t - (L - 1) - (S - 1))
              /\ call.appended = H * Max(0, t - (L - 1) - (S - 1))

\* C16 witness: a reduce pass with L > 1 and S > 1 is past its lag and has
\* appended more than one hop.
C16_Witness ==
    /\ call.op = "ReduceNoise" /\ worker # <<>> /\ pc # "crashed"
    /\ Wk.mHistoryLen > 1 /\ Wk.mStepsPerWindow > 1
    /\ call.steps > (Wk.mHistoryLen - 1) + (Wk.mStepsPerWindow - 1) + 1
    /\ call.appended = 2 * Wk.mStepSize

\* C17: until the effect is configured or called, every configuration field
\* holds its documented default, ReductionChoice 'reduce' among them.
\* PrefsIO assigns mNoiseReductionChoice nowhere, so it does not.
C17_ConstructedWithDefaults ==
    (call.op = "none" /\ nConfigures = 0)
        => /\ mSettings = DefaultSettings(NRC_REDUCE_NOISE)
           /\ WindowSize(mSettings) = 2048
           /\ StepsPerWindow(mSettings) = 4

\* C18 as stated: after t window steps of a pass the record at index i, for
\* i < t, holds the window analysed i steps before the newest one, so index 0
\* holds the window just analysed.  The step ends with the rotation, which
\* has moved that window to index 1 when L > 1.
C18_RingIndexIsAge ==
    (worker # <<>> /\ pc # "crashed")
        => \A i \in 0..(Wk.mHistoryLen - 1) :
              i < call.steps => mQueue[i].mFFT.win = call.steps - i

\* C18 amended: after t window steps of a pass the window analysed i steps
\* before the newest one, for i < min(t, L), is held by the record at index
\* (i + 1) mod L: the newest at index 1 and the oldest at index 0 once the
\* ring is full; the other records are the cleared ones of StartNewTrack.
\* No window is held twice and none of the last min(t, L) is missing.
C18_RingIndexIsAgeAfterRotation ==
    (worker # <<>> /\ pc # "crashed")
        => LET L == Wk.mHistoryLen
               t == call.steps
           IN /\ DOMAIN mQueue = 0..(L - 1)
              /\ \A i \in 0..(L - 1) :
                    IF i < t THEN mQueue[(i + 1) % L].mFFT.win = t - i
                    ELSE mQueue[(i + 1) % L].mFFT.win = 0
              /\ \A i, j \in 0..(L - 1) :
                    (i # j /\ mQueue[i].mFFT.win # 0) => mQueue[i].mFFT.win # mQueue[j].mFFT.win

\* C18 witness: a ring of more than two records has been rotated more often
\* than it is long, so that analysed windows have been overwritten.
C18_Witness ==
    /\ worker # <<>> /\ pc # "crashed"
    /\ Wk.mHistoryLen > 2
    /\ call.steps > Wk.mHistoryLen + 1
    /\ mQueue[1].mFFT.win = call.steps
    /\ mQueue[0].mFFT.win = call.steps - (Wk.mHistoryLen - 1)

\* C19: in the modes that do not isolate, once the attack of a window step
\* is done, every gain of a record behind the center is at least the
\* greater of mNoiseAttenFactor and the gain of the record before it times
\* mOneBlockAttack: the walk may stop where it stops.
C19_AttackCurveCovers ==
    (call.op = "ReduceNoise" /\ worker # <<>> /\ pc # "crashed" /\ call.steps > 0
     /\ Wk.mNoiseReductionChoice # NRC_ISOLATE_NOISE)
        => \A i \in (Wk.mCenter + 1)..(Wk.mHistoryLen - 1) : \A b \in Bands(Wk) :
              call.attacked[i][b] >= Max(Wk.mNoiseAttenFactor,
                                         GainMul(call.attacked[i - 1][b], Wk.mOneBlockAttack))

\* C19 witness: an attack has raised the gain of a record two behind the
\* center above mNoiseAttenFactor and below that of the record before it,
\* while the tail is further back.
C19_Witness ==
    /\ call.op = "ReduceNoise" /\ worker # <<>> /\ pc # "crashed" /\ call.steps > 0
    /\ Wk.mNoiseReductionChoice # NRC_ISOLATE_NOISE
    /\ Wk.mHistoryLen - 1 >= Wk.mCenter + 2
    /\ \E b \in Bands(Wk) :
          /\ call.attacked[Wk.mCenter][b] = 0
          /\ call.attacked[Wk.mCenter + 1][b] < 0
          /\ call.attacked[Wk.mCenter + 1][b] > Wk.mNoiseAttenFactor

\* C20: in the modes that do not isolate, when a window reaches the tail,
\* the gain it holds in band b before frequency smoothing is at least the
\* greater of mNoiseAttenFactor and mOneBlockRelease to the power j, for
\* every window j >= 1 steps before it whose band b was given gain 1 at the
\* center.
C20_ReleaseEnvelopeSpans ==
    (call.op = "ReduceNoise" /\ worker # <<>> /\ pc # "crashed" /\ call.steps > 0
     /\ Wk.mNoiseReductionChoice # NRC_ISOLATE_NOISE)
        => \A kb \in call.nonNoise :
              (kb[1] >= 1 /\ kb[1] < call.tail.win)
                  => call.tail.mGains[kb[2]]
                        >= Max(Wk.mNoiseAttenFactor, (call.tail.win - kb[1]) * Wk.mOneBlockRelease)

\* C20 witness: the window at the tail was found to be noise in some band,
\* as was the window before it, and holds two steps of release from the
\* window before that, which is above mNoiseAttenFactor.
C20_Witness ==
    /\ call.op = "ReduceNoise" /\ worker # <<>> /\ pc # "crashed" /\ call.steps > 0
    /\ Wk.mNoiseReductionChoice # NRC_ISOLATE_NOISE
    /\ call.tail.win >= 3
    /\ \E b \in Bands(Wk) :
          /\ <<call.tail.win - 2, b>> \in call.nonNoise
          /\ <<call.tail.win - 1, b>> \notin call.nonNoise
          /\ <<call.tail.win, b>> \notin call.nonNoise
          /\ call.tail.mGains[b] = 2 * Wk.mOneBlockRelease
          /\ call.tail.mGains[b] > Wk.mNoiseAttenFactor

\* the k-th window (k = 1, 2, ...) of the input of a profile pass: W
\* samples of the track, H further on for each window
ProfileWindow(k) ==
    TrackGet(tracks[poTrack], poStart + (k - 1) * Wk.mStepSize, Wk.mWindowSize)

\* C21: in a profile pass, however the input is split into blocks, once n
\* samples are copied in the windows gathered are those of input samples
\* [k*H, k*H + W) for k = 0, 1, ..., as many as fit in n: none if n < W,
\* floor((n - W) / H) + 1 otherwise.  Nothing is padded, nothing is left
\* uncopied, and samples that do not complete a window are not gathered.
C21_ProfileGathersFullWindows ==
    (call.op = "GetProfile" /\ worker # <<>> /\ pc # "crashed")
        => LET W == Wk.mWindowSize
               H == Wk.mStepSize
               n == mInSampleCount - psLen
               windows == IF n < W THEN 0 ELSE ((n - W) \div H) + 1
           IN /\ call.windows = windows
              /\ Statistics.mTrackWindows = windows
              /\ call.dropped = 0
              /\ windows >= 1 => mQueue[0].mFFT.wave = ProfileWindow(windows)
              /\ \A b \in Bands(Wk) :
                    Statistics.mSums[b]
                        = SumSeq([k \in 1..windows |-> FftPower(ProfileWindow(k), b)])

\* C21 witness: all the input of a profile pass is copied in, several
\* windows are gathered, one of them with the loud sample, and the
\* last samples do not complete a window.
C21_Witness ==
    /\ call.op = "GetProfile" /\ worker # <<>> /\ pc = "ProcessOne"
    /\ samplePos = poStart + poLen
    /\ call.windows >= 3
    /\ (poLen - Wk.mWindowSize) % Wk.mStepSize # 0
    /\ Statistics.mSums[ToneBin] > call.windows * Wk.mWindowSize

\* C22: FinishTrackStatistics, entered with n = mTrackWindows and
\* m = mTotalWindows, leaves mMeans[j] = (mMeans[j] * m + mSums[j]) / (n + m)
\* and mSums[j] = 0 for every bin, mTotalWindows = n + m and
\* mTrackWindows = 0; with n = 0 the means stay as they were and nothing is
\* divided.  GatherStatistics adds the head record's spectrum to the sums,
\* bin by bin, and 1 to mTrackWindows, and leaves the rest.
C22_StatisticsFolded ==
    /\ applied.op = "FinishTrackStatistics"
        => LET n == applied.in.mTrackWindows
               m == applied.in.mTotalWindows
           IN /\ applied.out.mTotalWindows = n + m
              /\ applied.out.mTrackWindows = 0
              /\ \A j \in DOMAIN applied.in.mSums :
                    /\ applied.out.mSums[j] = 0
                    /\ applied.out.mMeans[j].d > 0
                    /\ n = 0 => applied.out.mMeans[j] = applied.in.mMeans[j]
                    /\ n > 0 => applied.out.mMeans[j].n * applied.in.mMeans[j].d * (n + m)
                                  = (applied.in.mMeans[j].n * m
                                     + applied.in.mSums[j] * applied.in.mMeans[j].d)
                                    * applied.out.mMeans[j].d
    /\ applied.op = "GatherStatistics"
        => /\ applied.out.mTrackWindows = applied.in.mTrackWindows + 1
           /\ \A j \in DOMAIN applied.in.mSums :
                 applied.out.mSums[j] = applied.in.mSums[j] + applied.spectrum[j]
           /\ applied.out.mMeans = applied.in.mMeans
           /\ applied.out.mTotalWindows = applied.in.mTotalWindows

\* C22 witness: two windows of a track are folded into means that two
\* earlier windows left, and the mean of a bin changes.
C22_Witness ==
    /\ applied.op = "FinishTrackStatistics"
    /\ applied.in.mTrackWindows = 2 /\ applied.in.mTotalWindows = 2
    /\ applied.in.mMeans[0] = Rat(3, 2) /\ applied.in.mSums[0] = 1
    /\ applied.out.mMeans[0] = Rat(1, 1)

\* the k-th largest of the powers given to Classify, counted with
\* multiplicity
KthLargest(k) ==
    LET powers == applied.in.powers
    IN CHOOSE v \in { powers[i] : i \in DOMAIN powers } :
          /\ Cardinality({ i \in DOMAIN powers : powers[i] > v }) < k
          /\ Cardinality({ i \in DOMAIN powers : powers[i] >= v }) >= k

\* power <= mNewSensitivity * mean, with mNewSensitivity = 6 log(10.0)
AtMostThreshold(power) ==
    power * LnTenDen * applied.in.mean.d
        <= DefaultSettings(NRC_REDUCE_NOISE).mNewSensitivity * LnTenNum * applied.in.mean.n

\* C23: for any non-negative powers in the windows examined, Classify is
\* true iff the second largest, counted with multiplicity, is at most the
\* threshold (second greatest, or median of 3), or iff the third largest is
\* (median of 5).
C23_ClassifyIsOrderStatistic ==
    applied.op = "Classify"
        => /\ (applied.in.method = DM_SECOND_GREATEST
               \/ (applied.in.method = DM_MEDIAN /\ applied.in.examine = 3))
                 => (applied.out <=> AtMostThreshold(KthLargest(2)))
           /\ (applied.in.method = DM_MEDIAN /\ applied.in.examine = 5)
                 => (applied.out <=> AtMostThreshold(KthLargest(3)))

\* C23 witness: the median of five windows is at most the threshold though
\* two windows are above it, and Classify says noise.
C23_Witness ==
    /\ applied.op = "Classify"
    /\ applied.in.method = DM_MEDIAN /\ applied.in.examine = 5
    /\ applied.out
    /\ ~AtMostThreshold(KthLargest(2))
    /\ KthLargest(3) > 0

\* C24 as stated: in reduce and residue modes, right after the
\* classification of a window step, every band of the record at mCenter
\* found to be noise holds exactly mNoiseAttenFactor and every other band
\* exactly 1.  A band found to be noise keeps what the release of the step
\* before wrote, which may be more.
C24_CenterGainsAttenuationOrOne ==
    (call.op = "ReduceNoise" /\ worker # <<>> /\ pc # "crashed" /\ call.steps > 0
     /\ Wk.mNoiseReductionChoice # NRC_ISOLATE_NOISE)
        => \A b \in Bands(Wk) :
              call.center.mGains[b] = IF b \in call.center.noise THEN Wk.mNoiseAttenFactor ELSE 0

\* C24 amended: right after the classification, every band of the record
\* at mCenter found not to be noise (or outside the frequency range) holds
\* exactly 1; a band found to be noise holds what the record brought along:
\* mNoiseAttenFactor in the first window step, and after that the greater
\* of mNoiseAttenFactor and mOneBlockRelease times the gain that the record
\* at mCenter held in the same band one step earlier.
C24_CenterGainsReleaseOrOne ==
    (call.op = "ReduceNoise" /\ worker # <<>> /\ pc # "crashed" /\ call.steps > 0
     /\ Wk.mNoiseReductionChoice # NRC_ISOLATE_NOISE)
        => \A b \in Bands(Wk) :
              call.center.mGains[b]
                 = IF b \notin call.center.noise THEN 0
                   ELSE IF call.steps = 1 THEN Wk.mNoiseAttenFactor
                   ELSE Max(Wk.mNoiseAttenFactor,
                            GainMul(call.centerBefore.mGains[b], Wk.mOneBlockRelease))

\* C24 witness: a band of the record at mCenter is found to be noise and
\* holds one step of release from the window before it, which is above
\* mNoiseAttenFactor, while another band holds mNoiseAttenFactor.
C24_Witness ==
    /\ call.op = "ReduceNoise" /\ worker # <<>> /\ pc # "crashed" /\ call.steps > 1
    /\ Wk.mNoiseReductionChoice # NRC_ISOLATE_NOISE
    /\ \E b \in call.center.noise :
          /\ call.centerBefore.mGains[b] = 0
          /\ call.center.mGains[b] = Wk.mOneBlockRelease
          /\ call.center.mGains[b] > Wk.mNoiseAttenFactor
    /\ \E b \in call.center.noise : call.center.mGains[b] = Wk.mNoiseAttenFactor

\* C25: with mFreqSmoothingBins = 0 the smoothing leaves the gains as they
\* were; in isolate mode no record's gains are smoothed; in reduce and
\* residue modes the output part of a window step changes the gains of the
\* tail record only, and only in a step that synthesises the tail.  After
\* the step's rotation the tail is at index 0 and the record that was at
\* index i is at i + 1.
C25_SmoothingOnlyAtSynthesisedTail ==
    (call.op = "ReduceNoise" /\ worker # <<>> /\ pc # "crashed" /\ call.steps > 0)
        => LET L == Wk.mHistoryLen
               \* mOutStepCount as the step's test at 1030 read it
               synthesised == Synthesises(Wk, mOutStepCount - 1)
           IN /\ \A i \in 0..(L - 2) : mQueue[i + 1].mGains = call.shaped[i]
              /\ (Wk.mFreqSmoothingBins = 0 \/ Wk.mNoiseReductionChoice = NRC_ISOLATE_NOISE
                  \/ ~synthesised)
                    => mQueue[0].mGains = call.shaped[L - 1]

\* C25 witness: a reduce step with mFreqSmoothingBins = 1 has synthesised
\* the tail and the smoothing has changed its gains, and those of no other
\* record.
C25_Witness ==
    /\ call.op = "ReduceNoise" /\ worker # <<>> /\ pc # "crashed" /\ call.steps > 0
    /\ Wk.mNoiseReductionChoice # NRC_ISOLATE_NOISE
    /\ Wk.mFreqSmoothingBins = 1
    /\ Synthesises(Wk, mOutStepCount - 1)
    /\ mQueue[0].mGains # call.shaped[Wk.mHistoryLen - 1]
    /\ \A i \in 0..(Wk.mHistoryLen - 2) : mQueue[i + 1].mGains = call.shaped[i]

\* C26: in a reduce pass every round of the loop of FinishTrack, one call
\* of ProcessSamples with mStepSize zeros, completes exactly one window
\* step and raises mOutStepCount by exactly 1, wherever mInWavePos stood
\* when the input ended; no round is run that the loop guard did not ask
\* for, and the loop ends: FinishTrack returns and the output is pasted.
C26_FlushTerminates ==
    /\ [](  (call.op = "ReduceNoise" /\ pc \in {"FinishTrack", "FlushSamples"})
            => LET H == Wk.mStepSize
                   from == call.flushFrom[1]
               IN /\ pc = "FinishTrack"
                        => /\ mOutStepCount = from + call.flushes
                           /\ call.flushes > 0 => (mOutStepCount - 1) * H < mInSampleCount
                  /\ pc = "FlushSamples"
                        => \/ psLen = H /\ mOutStepCount = from + call.flushes - 1
                           \/ psLen < H /\ mOutStepCount = from + call.flushes  )
    /\ (pc = "FinishTrack") ~> (pc = "idle" /\ call.pasted)

\* C26 witness: the flush has run more than one round, having begun with
\* mInWavePos off the step boundary W - H, and its loop guard is false.
C26_Witness ==
    /\ call.op = "ReduceNoise" /\ pc = "FinishTrack"
    /\ call.flushes > 1
    /\ call.flushFrom[2] > Wk.mWindowSize - Wk.mStepSize
    /\ mOutStepCount = call.flushFrom[1] + call.flushes
    /\ mOutStepCount * Wk.mStepSize >= mInSampleCount

\* the m-th window (m = 1, 2, ...) of the input of a reduce pass: input
\* samples [(m-S)*H, m*H) of the selection, zeros before its first sample
\* and after its last
ReduceWindow(m) ==
    [i \in 1..Wk.mWindowSize |->
        LET q == (m - Wk.mStepsPerWindow) * Wk.mStepSize + (i - 1)
        IN IF q >= 0 /\ q < poLen THEN tracks[poTrack].samples[poStart + q + 1] ELSE 0]

\* C27: output is time-aligned with input in a reduce pass.  The window
\* numbered m is that of input samples [(m-S)*H, m*H), zero-padded, and the
\* j-th hop of the output track (j = 0, 1, ...) is the sum of one segment of
\* each of the S windows j+1..j+S and of nothing else, window j+i giving its
\* segment S+1-i, which is the one over input samples [j*H, (j+1)*H).
C27_OutputAlignedWithInput ==
    (call.op = "ReduceNoise" /\ worker # <<>> /\ pc # "crashed")
        => LET S == Wk.mStepsPerWindow
               H == Wk.mStepSize
           IN /\ \A i \in DOMAIN mQueue :
                    mQueue[i].mFFT.win >= 1 => mQueue[i].mFFT.wave = ReduceWindow(mQueue[i].mFFT.win)
              /\ \A j \in 0..(Len(outputTrack) - 1) :
                    /\ outputTrack[j + 1].src = { <<j + i, S + 1 - i>> : i \in 1..S }
                    /\ \A p \in outputTrack[j + 1].src :
                          (p[1] - S) * H + (p[2] - 1) * H = j * H

\* C27 witness: a reduce pass with more than one step per window has
\* appended a second hop, in which a window holding input samples and one
\* reaching past the end of the input overlap.
C27_Witness ==
    /\ call.op = "ReduceNoise" /\ worker # <<>> /\ pc # "crashed"
    /\ Wk.mStepsPerWindow > 1
    /\ Len(outputTrack) >= 2
    /\ outputTrack[2].src = { <<1 + i, Wk.mStepsPerWindow + 1 - i>> : i \in 1..Wk.mStepsPerWindow }
    /\ \E i \in DOMAIN mQueue :
          /\ mQueue[i].mFFT.win >= 2
          /\ mQueue[i].mFFT.win * Wk.mStepSize > poLen
          /\ mQueue[i].mFFT.wave = ReduceWindow(mQueue[i].mFFT.win)
          /\ \E k \in 1..Wk.mWindowSize : mQueue[i].mFFT.wave[k] # 0

\* C28: no input sample is dropped.  In a profile pass and in a reduce
\* pass, while ProcessSamples works on a block of the input (mInSampleCount
\* already counts the block), its loop guard mOutStepCount * H <
\* mInSampleCount is true whenever samples of the block are left, so it
\* returns only when all are copied in; up to the end of the input nothing
\* was returned uncopied, and every sample counted is in a window step
\* taken or in the wave buffer.
C28_NoInputSampleDropped ==
    (call.op \in {"GetProfile", "ReduceNoise"} /\ worker # <<>>
     /\ pc \in {"ProcessOne", "ProcessSamples"})
        => /\ (pc = "ProcessSamples" /\ psLen > 0)
                 => mOutStepCount * Wk.mStepSize < mInSampleCount
           /\ call.dropped = 0
           /\ mInSampleCount - psLen
                 = call.steps * Wk.mStepSize + mInWavePos
                   - (IF Wk.mDoProfile THEN 0 ELSE Wk.mWindowSize - Wk.mStepSize)

\* C28 witness: ProcessSamples has returned from a block of more than one
\* sample that took it through a window step, and the input is at its end.
C28_Witness ==
    /\ call.op \in {"GetProfile", "ReduceNoise"} /\ worker # <<>>
    /\ pc = "ProcessOne" /\ samplePos = poStart + poLen
    /\ call.steps > 1
    /\ mInSampleCount = poLen /\ poLen > Wk.mWindowSize
    /\ call.dropped = 0
    /\ mInWavePos % Wk.mStepSize # 0

\* the indices of mQueue that the loops of Classify read
ClassifyIndices(w) ==
    IF w.mMethod = DM_MEDIAN /\ w.mNWindowsToExamine \notin {3, 5} THEN {}
    ELSE IF w.mMethod \in {DM_MEDIAN, DM_SECOND_GREATEST} THEN 0..(w.mNWindowsToExamine - 1)
    ELSE {}
\* those the attack loop of ReduceNoise reads and writes, at most
AttackIndices(w) == UNION { {ii - 1, ii} : ii \in (w.mCenter + 1)..(w.mHistoryLen - 1) }
\* those the release of ReduceNoise reads and writes
ReleaseIndices(w) == {w.mCenter - 1, w.mCenter}
\* those a window step uses: FillFirstHistoryWindow and GatherStatistics
\* index 0; ReduceNoise the center, the above and the tail
StepIndices(w) ==
    IF w.mDoProfile THEN {0}
    ELSE {0, w.mCenter, w.mHistoryLen - 1} \cup ClassifyIndices(w)
         \cup (IF w.mNoiseReductionChoice # NRC_ISOLATE_NOISE
               THEN AttackIndices(w) \cup ReleaseIndices(w) ELSE {})

\* C29: every index the engine uses is in range.  mInWavePos is within
\* 0..W, below W whenever samples are to be copied in, and at least W - H
\* in a reduce pass; what is copied ends at W at most.  Every index of the
\* ring a window step reads or writes is within 0..L-1: in a reduce pass
\* because 1 <= mCenter and L = max(NExamine, mCenter + nAttackBlocks), in
\* a profile pass because only index 0 is used.
C29_IndicesInRange ==
    (worker # <<>> /\ pc # "crashed")
        => LET w == Wk
               W == w.mWindowSize
               L == w.mHistoryLen
               nAttackBlocks == BlocksIn(call.settings.mAttackTime, w.mSampleRate, w.mStepSize)
           IN /\ mInWavePos >= 0 /\ mInWavePos <= W
              /\ psLen > 0 => /\ mInWavePos < W
                              /\ mInWavePos + Min(psLen, W - mInWavePos) <= W
              /\ Len(mInWaveBuffer) = W
              /\ ~w.mDoProfile => mInWavePos >= W - w.mStepSize
              /\ DOMAIN mQueue = 0..(L - 1)
              /\ StepIndices(w) \subseteq DOMAIN mQueue
              /\ w.mDoProfile => StepIndices(w) = {0}
              /\ ~w.mDoProfile => /\ w.mCenter >= 1
                                  /\ nAttackBlocks >= 1
                                  /\ L >= w.mNWindowsToExamine
                                  /\ L >= w.mCenter + nAttackBlocks

\* C29 witness: a reduce pass that shapes gains, with a ring made longer
\* than the windows to examine by the attack, has synthesised its tail, and
\* samples have been copied in behind others in the wave buffer.
C29_Witness ==
    /\ worker # <<>> /\ pc \in {"ProcessOne", "ProcessSamples"}
    /\ ~Wk.mDoProfile /\ Wk.mNoiseReductionChoice # NRC_ISOLATE_NOISE
    /\ Wk.mHistoryLen > Wk.mNWindowsToExamine
    /\ call.steps >= Wk.mHistoryLen
    /\ mInWavePos > Wk.mWindowSize - Wk.mStepSize
    /\ StepIndices(Wk) = DOMAIN mQueue

\* C30: every record synthesised at the tail has been classified first.
\* In a reduce, residue or isolate pass, when a window step applies the
\* gains of the record at index L-1, that record holds an analysed window
\* which was at mCenter in a strictly earlier step and was classified
\* there: in isolate mode its gains are those the classification wrote, in
\* the other modes they are those it left, raised if at all by the attack
\* of later steps, a band found not to be noise still holding gain 1.
C30_TailWasClassified ==
    (call.op = "ReduceNoise" /\ worker # <<>> /\ pc # "crashed" /\ call.steps > 0
     /\ mOutStepCount - 1 >= 0 - (Wk.mStepsPerWindow - 1))
        => /\ call.tail.win >= 1
           /\ call.tail.win # call.center.win
           /\ Wk.mHistoryLen - 1 > Wk.mCenter
           /\ \E c \in call.classified :
                 /\ c.win = call.tail.win
                 /\ \A b \in Bands(Wk) :
                       IF Wk.mNoiseReductionChoice = NRC_ISOLATE_NOISE
                       THEN call.tail.mGains[b] = c.mGains[b]
                       ELSE /\ call.tail.mGains[b] >= c.mGains[b]
                            /\ c.mGains[b] = 0 => call.tail.mGains[b] = 0

\* C30 witness: a pass has synthesised a tail record that was classified
\* some steps before with one band found not to be noise and another found
\* to be noise; other windows have been classified since.
C30_Witness ==
    /\ call.op = "ReduceNoise" /\ worker # <<>> /\ pc # "crashed" /\ call.steps > 0
    /\ mOutStepCount - 1 >= 0 - (Wk.mStepsPerWindow - 1)
    /\ call.tail.win >= 1
    /\ call.center.win > call.tail.win + 1
    /\ \E c \in call.classified :
          /\ c.win = call.tail.win
          /\ \E b \in Bands(Wk) : c.mGains[b] = 0 /\ call.tail.mGains[b] = 0
          /\ \E b \in Bands(Wk) : c.mGains[b] # 0

\* C31: frequency-smoothed gains never feed back into temporal shaping.
\* In reduce and residue modes the gains that the classification, attack
\* and release of a window step find are, at index 0, the mNoiseAttenFactor
\* that FillFirstHistoryWindow has just written over what the tail of the
\* step before left there, and at every other index what the release of the
\* step before left one index lower, never a smoothed vector.  The tail
\* index L-1 is above mCenter, so the release, which uses mCenter - 1 and
\* mCenter, does not touch it; and the tail of a synthesising step holds
\* window steps - (L-1), so each window is at the tail, and smoothed, in one
\* step only.
C31_SmoothedGainsNotShapedAgain ==
    (call.op = "ReduceNoise" /\ worker # <<>> /\ pc # "crashed" /\ call.steps > 0
     /\ Wk.mNoiseReductionChoice # NRC_ISOLATE_NOISE)
        => LET L == Wk.mHistoryLen
           IN /\ \A b \in Bands(Wk) : call.filled[0][b] = Wk.mNoiseAttenFactor
              /\ call.steps > 1 => \A i \in 1..(L - 1) : call.filled[i] = call.shapedBefore[i - 1]
              /\ L - 1 > Wk.mCenter /\ Wk.mCenter - 1 >= 0
              /\ mOutStepCount - 1 >= 0 - (Wk.mStepsPerWindow - 1)
                    => call.tail.win = call.steps - (L - 1)

\* C31 witness: the step before the latest one synthesised its tail and
\* the smoothing changed its gains; the latest step found that record at
\* index 0 and began with mNoiseAttenFactor in every band of it.
C31_Witness ==
    /\ call.op = "ReduceNoise" /\ worker # <<>> /\ pc # "crashed" /\ call.steps > 1
    /\ Wk.mNoiseReductionChoice # NRC_ISOLATE_NOISE
    /\ Wk.mFreqSmoothingBins = 1
    /\ mOutStepCount - 2 >= 0 - (Wk.mStepsPerWindow - 1)
    /\ call.headSmoothed
    /\ \A b \in Bands(Wk) : call.filled[0][b] = Wk.mNoiseAttenFactor

====
